---- MODULE Spec2Model ----
(***************************************************************************)
(* Model of the DARA treasury agent: the offline intent queue               *)
(* (src/src/agent/offline-queue.ts), the executor and its auto-optimizer    *)
(* loop (src/unnamed/part_009), and the cached signal getters               *)
(* (src/unnamed/part_005, src/unnamed/part_006, src/src/agent/              *)
(* yield-scanner.ts).                                                       *)
(*                                                                         *)
(* JavaScript runs each handler to its next await without interruption, so *)
(* every action below is one such run-to-await segment.                    *)
(***************************************************************************)
EXTENDS Integers, Sequences, FiniteSets, TLC

VARIABLES
    \* ---- offline-queue.ts
    queue,        \* localStorage["dara_offline_queue"]: Seq of [id, status]
    nextIntentId, \* stands for the unique ids enqueue() generates
    drains,       \* one record per processQueue() invocation
    calls         \* history: <<drain, intent id>> for each executor call, in call order

queueVars == <<queue, nextIntentId, drains, calls>>

VARIABLES
    \* ---- executor (part_009) module state
    agentRunning,      \* let agentRunning
    agentInterval,     \* let agentInterval: a timer handle, 0 for null
    timers,            \* the live setInterval timers (handles)
    riskLevel,         \* let riskLevel
    priceHistory,      \* const priceHistory: Seq of prices (cents)
    treasuryDecisions, \* the decision ledger
    treasuryState,     \* let treasuryState
    decisionIdCounter, \* let decisionIdCounter
    currentPositions,  \* yield-scanner.ts: let currentPositions
    now,               \* Date.now(), ms since the model's start
    cycles,            \* one record per runOptimizationCycle() invocation
    nextCycle,         \* next unused cycle record
    cmd,               \* the manual executeFunction() call in flight, if any
    cmdCount,          \* manual vault commands issued so far
    riskChanges,       \* setRiskLevel commands issued so far
    budget,            \* the budget of this run (never changes)
    vaultFailures      \* history: vault transfers that returned success = false

\* the executor's state without the clock
execVars == <<agentRunning, agentInterval, timers, riskLevel, priceHistory,
              treasuryDecisions, treasuryState, decisionIdCounter, currentPositions,
              cycles, nextCycle, cmd, cmdCount, riskChanges, budget, vaultFailures>>

schedVars == <<execVars, now>>

VARIABLES
    \* ---- cached signal getters
    cachedPrices,       \* part_005: let cachedPrices
    lastPriceFetch,     \* part_005: let lastPriceFetch
    cachedPools,        \* yield-scanner.ts: let cachedPools
    lastFetchTime,      \* yield-scanner.ts: let lastFetchTime
    cachedNaviData,     \* yield-scanner.ts: let cachedNaviData
    lastNaviFetch,      \* yield-scanner.ts: let lastNaviFetch
    cachedMarketData,   \* part_006: let cachedMarketData
    lastMarketFetch,    \* part_006: let lastMarketFetch
    cachedFundingRates, \* part_006: let cachedFundingRates
    lastFundingFetch,   \* part_006: let lastFundingFetch
    fetches,            \* getter calls made so far
    lastCall,           \* history: what the latest getter call did and returned
    priceCalls          \* fetchPrices calls, each with its own "now", and (history)
                        \* the request time of the newest successful fetch

cacheVars == <<cachedPrices, lastPriceFetch, cachedPools, lastFetchTime,
               cachedNaviData, lastNaviFetch, cachedMarketData, lastMarketFetch,
               cachedFundingRates, lastFundingFetch, fetches, lastCall, priceCalls>>

VARIABLES
    \* ---- executeFunction commands
    txCount             \* history: transactions built and submitted by commands

cmdVars == <<txCount>>

VARIABLES
    \* ---- strategy engine (part_005)
    decisionCounter,    \* let decisionCounter
    strategy            \* history: the latest evaluateStrategy call and its decision

strategyVars == <<decisionCounter, strategy>>

VARIABLES
    \* ---- history of assessTreasuryRisk: one record per completed assessment
    assessments

riskVars == <<assessments>>

VARIABLES
    \* ---- history of scanYields: the latest call, its inputs and its result
    lastScan,
    scanCount

scanVars == <<lastScan, scanCount>>

vars == <<queueVars, schedVars, cacheVars, cmdVars, strategyVars, riskVars,
         scanVars>>

\* ------------------------------------------------------------------ bounds
MaxIntents == 3   \* intents enqueued in one run of the model
MaxDrains  == 2   \* processQueue() invocations in one run of the model
MaxFetches == 3   \* cached-getter calls in one run of the model
MaxPriceCalls == 3 \* fetchPrices calls that may overlap in one run of the model
MaxScans == 2       \* scanYields calls in one run of the model
MaxEvaluations == 2 \* evaluateStrategy calls in one run of the model
\* The executor is explored under a budget fixed at the start of a run: how many
\* cycles may start, how many may be in flight together, how many manual vault
\* commands and setRiskLevel commands are issued.
LoopCycles == 4   \* "loop": cycles one after the other, long enough for every trigger
LoopManual == 1
RaceCycles == 3   \* "race": overlapping cycles and a manual command
RaceOverlap == 2
RaceManual == 1
RiskCycles == 2   \* "risk": setRiskLevel against the loop
RiskChanges == 1

BalanceCycles == 3 \* "balance": three sequential cycles beside two manual commands
BalanceManual == 2
SentinelCycles == 3 \* "sentinel": three sequential cycles beside two manual commands
SentinelManual == 2
PositionCycles == 2 \* "positions": two sequential cycles beside two manual moves
PositionManual == 2
RiskManual == 3    \* "risk": assessTreasuryRisk and vault commands alone
LedgerManual == 52 \* "ledger": moveToArcVault commands alone, past the ledger's capacity
CmdManual == 2    \* "commands": manual commands alone, the optimizer never started
CmdRisk == 2
Budgets ==
    { [cycles |-> LoopCycles, overlap |-> 1, manual |-> LoopManual, risk |-> 0],
      [cycles |-> RaceCycles, overlap |-> RaceOverlap, manual |-> RaceManual, risk |-> 0],
      [cycles |-> RiskCycles, overlap |-> 1, manual |-> 0, risk |-> RiskChanges],
      [cycles |-> 0, overlap |-> 0, manual |-> CmdManual, risk |-> CmdRisk] }

\* ================================================================ utilities
Last(s) == s[Len(s)]

\* ======================================================= offline-queue.ts
DrainIds == 1..MaxDrains

IdleDrain == [pc |-> "idle", pending |-> <<>>, idx |-> 0, results |-> <<>>]

\* position of the intent with this id in the stored queue, 0 when absent
\* (Array.prototype.findIndex, 1-based here)
FindIndex(q, id) ==
    IF \E i \in 1..Len(q) : q[i].id = id
    THEN CHOOSE i \in 1..Len(q) : q[i].id = id /\ \A j \in 1..(i-1) : q[j].id # id
    ELSE 0

\* updateIntent(id, {status})
updateIntent(q, id, status) ==
    LET idx == FindIndex(q, id)
    IN IF idx > 0 THEN [q EXCEPT ![idx].status = status] ELSE q

getPendingReversed(q) ==
    LET p == SelectSeq(q, LAMBDA i : i.status = "queued")
    IN [k \in 1..Len(p) |-> p[Len(p) + 1 - k].id]

\* getPending(): the queued intents, in stored order (ids only)
getPending(q) ==
    LET p == SelectSeq(q, LAMBDA i : i.status = "queued")
    IN [k \in 1..Len(p) |-> p[k].id]

\* enqueue(functionName, args)
Enqueue ==
    /\ nextIntentId <= MaxIntents
    /\ queue' = Append(queue, [id |-> nextIntentId, status |-> "queued"])
    /\ nextIntentId' = nextIntentId + 1
    /\ UNCHANGED <<drains, calls>>
    /\ UNCHANGED <<schedVars, cacheVars, cmdVars, strategyVars, riskVars, scanVars>>

\* handleOnline -> processQueue(executor), up to its first await: read the
\* pending list, mark the first intent processing and call the executor.
HandleOnline(d) ==
    /\ drains[d].pc = "idle"
    /\ LET pending == getPending(queue)
       IN IF Len(pending) = 0
          THEN /\ drains' = [drains EXCEPT ![d] = [IdleDrain EXCEPT !.pc = "done"]]
               /\ UNCHANGED <<queue, calls>>
          ELSE /\ queue' = updateIntent(queue, pending[1], "processing")
               /\ calls' = Append(calls, <<d, pending[1]>>)
               /\ drains' = [drains EXCEPT ![d] =
                     [pc |-> "exec", pending |-> pending, idx |-> 1, results |-> <<>>]]
    /\ UNCHANGED nextIntentId
    /\ UNCHANGED <<schedVars, cacheVars, cmdVars, strategyVars, riskVars, scanVars>>

\* the awaited executor call of drain d settles (ok: resolved, ~ok: rejected);
\* record the outcome, then go on to the next pending intent or return.
ExecutorSettles(d, ok) ==
    /\ drains[d].pc = "exec"
    /\ LET dr  == drains[d]
           id  == dr.pending[dr.idx]
           q1  == updateIntent(queue, id, IF ok THEN "completed" ELSE "failed")
           res == Append(dr.results, [id |-> id, success |-> ok])
       IN IF dr.idx < Len(dr.pending)
          THEN /\ queue' = updateIntent(q1, dr.pending[dr.idx + 1], "processing")
               /\ calls' = Append(calls, <<d, dr.pending[dr.idx + 1]>>)
               /\ drains' = [drains EXCEPT ![d] =
                     [dr EXCEPT !.idx = dr.idx + 1, !.results = res]]
          ELSE /\ queue' = q1
               /\ calls' = calls
               /\ drains' = [drains EXCEPT ![d] =
                     [dr EXCEPT !.pc = "done", !.results = res]]
    /\ UNCHANGED nextIntentId
    /\ UNCHANGED <<schedVars, cacheVars, cmdVars, strategyVars, riskVars, scanVars>>

\* processQueue has returned its results to handleOnline: the next online
\* event starts a new drain
DrainReturns(d) ==
    /\ drains[d].pc = "done"
    /\ drains' = [drains EXCEPT ![d] = IdleDrain]
    /\ UNCHANGED <<queue, nextIntentId, calls>>
    /\ UNCHANGED <<schedVars, cacheVars, cmdVars, strategyVars, riskVars, scanVars>>

\* the page is closed or reloaded: every drain in progress is gone with the
\* process, the queue stays as localStorage holds it (getQueue, saveQueue)
Restart ==
    /\ \E d \in DrainIds : drains[d].pc # "idle"
    /\ drains' = [d \in DrainIds |-> IdleDrain]
    /\ UNCHANGED <<queue, nextIntentId, calls>>
    /\ UNCHANGED <<schedVars, cacheVars, cmdVars, strategyVars, riskVars, scanVars>>

\* ===================================================== constants (page.tsx)
LOOP_INTERVAL            == 60000 \* AGENT_CONFIG.LOOP_INTERVAL, ms
HYSTERESIS_INTERVALS     == 5    \* evaluateStrategy: LOOP_INTERVAL * 5
SAFETY_THRESHOLD_PCT     == 8
RECOVERY_THRESHOLD_PCT   == 5
MIN_YIELD_FOR_DEPLOYMENT == 20   \* 2.0 %, APYs are in tenths of a percent
MAX_PRICE_HISTORY        == 20
MAX_DECISIONS            == 50
NO_YIELD_RISK_SCORE      == 55
MIN_TVL                  == 1000 \* findBestYield: tvl < 1_000_000, TVL in thousands of USD

RiskLevels == {"conservative", "moderate", "aggressive"}

\* RISK_PROFILES
RISK_PROFILES ==
    [conservative |-> [rebalanceThresholdApy |-> 30, allowCrossChain |-> FALSE],
     moderate     |-> [rebalanceThresholdApy |-> 20, allowCrossChain |-> TRUE],
     aggressive   |-> [rebalanceThresholdApy |-> 10, allowCrossChain |-> TRUE]]

\* ------------------------------------------------------ environment inputs
\* SUI prices getSuiPrice() resolves with, in cents: a 10 % drop and recovery
Prices == {90, 100}

\* amounts (USD) a manual vault command may carry; 0 stands for a missing amount
Amounts == {0, 64}

Opp(protocol, chain, netApy, isNative, tvl) ==
    [protocol |-> protocol, chain |-> chain, netApy |-> netApy,
     isNative |-> isNative, tvl |-> tvl]

\* results of scanYields(): opportunity lists sorted by netApy, descending
Scans ==
    { <<>>,
      << Opp("NAVI", "Sui", 50, TRUE, 5000) >>,
      << Opp("Aave V3", "Arbitrum", 97, FALSE, 9000), Opp("NAVI", "Sui", 50, TRUE, 5000) >> }

NoOpp      == Opp("none", "none", 0, FALSE, 0)
NoPosition == [protocol |-> "none", chain |-> "none", apy |-> 0, amountUsd |-> 0]
NoDecision == [id |-> 0, timestamp |-> 0, type |-> "none", reasoning |-> "none",
               riskScore |-> 0, amount |-> 0, chain |-> "none"]

\* ----------------------------------------------------------- pure helpers
Min2(a, b) == IF a < b THEN a ELSE b
Max2(a, b) == IF a > b THEN a ELSE b
Abs(x)     == IF x < 0 THEN -x ELSE x

\* Math.round(n / d) for n >= 0, d > 0
RoundDiv(n, d) == (2 * n + d) \div (2 * d)

\* x * 0.5 (the amounts of the model stay even where they are halved)
Half(x) == x \div 2

\* Math.min(...priceHistory.slice(-10).map(p => p.price))
RecentLow(ph) ==
    LET from == Max2(1, Len(ph) - 9)
    IN CHOOSE m \in {ph[i] : i \in from..Len(ph)} :
           \A i \in from..Len(ph) : m <= ph[i]

\* priceHistory.push(...); if (length > MAX_PRICE_HISTORY) shift()
PushPrice(ph, p) ==
    LET ph1 == Append(ph, p)
    IN IF Len(ph1) > MAX_PRICE_HISTORY THEN Tail(ph1) ELSE ph1

\* priceFromRecent < -SAFETY_THRESHOLD_PCT; a first price of 0 gives NaN or
\* Infinity in the code, and the comparison is then false
SafetyTrigger(ph, p) ==
    /\ Len(ph) > 2
    /\ ph[1] > 0
    /\ (p - ph[1]) * 100 < -(SAFETY_THRESHOLD_PCT * ph[1])

\* recoveryFromLow > RECOVERY_THRESHOLD_PCT
RecoveryTrigger(ph, p) ==
    LET low == IF Len(ph) > 2 THEN RecentLow(ph) ELSE p
    IN low > 0 /\ (p - low) * 100 > RECOVERY_THRESHOLD_PCT * low

\* Math.min(100, Math.round(Math.abs(priceFromRecent) * 5))
SafetyScore(ph, p) == Min2(100, RoundDiv(500 * Abs(p - ph[1]), ph[1]))

\* Math.max(0, 50 - Math.round(recoveryFromLow * 3))
RedeployScore(ph, p) ==
    LET low == IF Len(ph) > 2 THEN RecentLow(ph) ELSE p
    IN Max2(0, 50 - RoundDiv(300 * (p - low), low))

\* allocation percentage, in hundredths of a percent
AllocPct(part, total) == IF total > 0 THEN (part * 10000) \div total ELSE 0

\* String.prototype.toLowerCase and trim, on the strings the model uses
toLowerCase(str) ==
    CASE str = "Scallop"        -> "scallop"
      [] str = "NAVI"           -> "navi"
      [] str = "Aave V3"        -> "aave v3"
      [] str = "Compound V3"    -> "compound v3"
      [] str = "Arc"            -> "arc"
      [] str = "Bluefin"        -> "bluefin"
      [] str = "Navi Protocol " -> "navi protocol "
      [] OTHER                  -> str

trim(str) ==
    CASE str = "navi protocol " -> "navi protocol"
      [] OTHER                  -> str

\* the synonym table of resolveProtocolName
ProtocolSynonyms ==
    ("scallop" :> "Scallop") @@ ("scallop-lend" :> "Scallop") @@
    ("navi" :> "NAVI") @@ ("navi-lending" :> "NAVI") @@ ("navi protocol" :> "NAVI") @@
    ("aave" :> "Aave V3") @@ ("aave v3" :> "Aave V3") @@ ("aave-v3" :> "Aave V3") @@
    ("compound" :> "Compound V3") @@ ("compound v3" :> "Compound V3") @@
    ("compound-v3" :> "Compound V3") @@
    ("arc" :> "Arc") @@ ("circle" :> "Arc") @@
    ("bluefin" :> "Bluefin") @@ ("bluefin-perp" :> "Bluefin")

resolveProtocolNameLenient(input) ==
    IF input = "" THEN "none" ELSE "NAVI"

\* resolveProtocolName(input): "none" stands for null
resolveProtocolName(input) ==
    LET lower == trim(toLowerCase(input))
    IN IF lower \in DOMAIN ProtocolSynonyms THEN ProtocolSynonyms[lower] ELSE "none"

\* findBestYield(riskLevel): the profile's filter over a scan, and its head
Eligible(scan, level) ==
    SelectSeq(scan, LAMBDA o :
        /\ (RISK_PROFILES[level].allowCrossChain \/ o.isNative)
        /\ ~(o.tvl < MIN_TVL))

BestOpportunity(scan, level) ==
    IF Len(Eligible(scan, level)) > 0 THEN Eligible(scan, level)[1] ELSE NoOpp

\* setPosition(position)
setPositionAppends(positions, pos) == Append(positions, pos)

\* setPosition(position): the tracked list after the call
setPosition(positions, pos) ==
    IF \E i \in 1..Len(positions) :
           positions[i].protocol = pos.protocol /\ positions[i].chain = pos.chain
    THEN LET idx == CHOOSE i \in 1..Len(positions) :
                        /\ positions[i].protocol = pos.protocol
                        /\ positions[i].chain = pos.chain
                        /\ \A j \in 1..(i-1) :
                               ~(positions[j].protocol = pos.protocol
                                 /\ positions[j].chain = pos.chain)
         IN [positions EXCEPT ![idx] = pos]
    ELSE Append(positions, pos)

\* recordTreasuryDecision(type, trigger, action, reasoning, riskScore, amount, txHash, chain):
\* the ledger and treasuryState after the call
NewDecision(type, reasoning, riskScore, amount, chain) ==
    [id |-> decisionIdCounter + 1, timestamp |-> now, type |-> type,
     reasoning |-> reasoning, riskScore |-> riskScore, amount |-> amount, chain |-> chain]

PushDecisionDropNewest(ledger, d) ==
    IF Len(ledger) >= MAX_DECISIONS THEN ledger ELSE Append(ledger, d)

PushDecision(ledger, d) ==
    LET l1 == Append(ledger, d)
    IN IF Len(l1) > MAX_DECISIONS THEN Tail(l1) ELSE l1

RecordIntoKeepsDecision(state, d) ==
    [state EXCEPT !.lastDecisionTime = now, !.riskScore = d.riskScore]

RecordInto(state, d) ==
    [state EXCEPT !.lastDecision = d, !.lastDecisionTime = now, !.riskScore = d.riskScore]

\* ============================================ executor: the optimizer loop
CycleIds == 1..Max2(LoopCycles, Max2(RaceCycles, RiskCycles))

\* history of a cycle's rebalance: the scan it saw and the tracked positions
\* just before and just after its setPosition
NoRebalance == [done |-> FALSE, scan |-> <<>>, before |-> <<>>, after |-> <<>>]

IdleCycle ==
    [pc |-> "idle", amt |-> 0, score |-> 0, argRisk |-> "none",
     best |-> NoOpp, cur |-> NoPosition,
     \* history, not program state:
     startRisk |-> "none", riskDrift |-> FALSE, recorded |-> 0, failed |-> FALSE,
     rebal |-> NoRebalance]

\* a returned cycle: its locals are gone, its history stays
Done(cy) ==
    [IdleCycle EXCEPT !.pc = "done", !.startRisk = cy.startRisk,
                      !.riskDrift = cy.riskDrift, !.recorded = cy.recorded,
                      !.failed = cy.failed, !.rebal = cy.rebal]

InFlight(c) == cycles[c].pc \notin {"idle", "done"}

NumInFlight == Cardinality({c \in CycleIds : InFlight(c)})

\* the call findBestYield(riskLevel) up to its await: the argument is read now
CallFindBest(cy, pc) ==
    [cy EXCEPT !.pc = pc, !.argRisk = riskLevel,
               !.riskDrift = cy.riskDrift \/ riskLevel # cy.startRisk]

\* runOptimizationCycle(context) up to its first await (getSuiPrice)
StartedCycle ==
    [IdleCycle EXCEPT !.pc = "price", !.startRisk = riskLevel]

\* the first n unused cycle records start a cycle
SpawnCycles(n) ==
    [c \in CycleIds |->
        IF c >= nextCycle /\ c < nextCycle + n THEN StartedCycle ELSE cycles[c]]

\* startAutoYield -> startAutoOptimizer(context): one immediate cycle, one timer
StartAutoYield ==
    /\ ~agentRunning
    /\ nextCycle <= budget.cycles
    /\ NumInFlight < budget.overlap
    /\ agentRunning' = TRUE
    /\ cycles' = SpawnCycles(1)
    /\ nextCycle' = nextCycle + 1
    /\ LET h == CHOOSE t \in 1..(Cardinality(timers) + 1) : t \notin timers
       IN /\ timers' = timers \cup {h}
          /\ agentInterval' = h
    /\ UNCHANGED <<riskLevel, priceHistory, treasuryDecisions, treasuryState,
                   decisionIdCounter, currentPositions, now, cmd, cmdCount, riskChanges, budget, vaultFailures>>
    /\ UNCHANGED <<queueVars, cacheVars, cmdVars, strategyVars, riskVars, scanVars>>

\* startAutoYield while already running: "already running", nothing else
StartAutoYieldAgain ==
    /\ agentRunning
    /\ UNCHANGED <<queueVars, schedVars, cacheVars, cmdVars, strategyVars, riskVars, scanVars>>

StopAutoYieldKeepsTimer ==
    /\ agentRunning
    /\ agentRunning' = FALSE
    /\ agentInterval' = 0
    /\ UNCHANGED <<timers, riskLevel, priceHistory, treasuryDecisions, treasuryState,
                   decisionIdCounter, currentPositions, now, cycles, nextCycle,
                   cmd, cmdCount, riskChanges, budget, vaultFailures>>
    /\ UNCHANGED <<queueVars, cacheVars, cmdVars, strategyVars, riskVars, scanVars>>

\* stopAutoYield -> stopAutoOptimizer()
StopAutoYieldAbortsCycles ==
    /\ agentRunning
    /\ agentRunning' = FALSE
    /\ timers' = IF agentInterval # 0 THEN timers \ {agentInterval} ELSE timers
    /\ agentInterval' = 0
    /\ cycles' = [c \in CycleIds |->
                     IF InFlight(c) THEN Done(cycles[c]) ELSE cycles[c]]
    /\ UNCHANGED <<riskLevel, priceHistory, treasuryDecisions, treasuryState,
                   decisionIdCounter, currentPositions, now, nextCycle,
                   cmd, cmdCount, riskChanges, budget, vaultFailures>>
    /\ UNCHANGED <<queueVars, cacheVars, cmdVars, strategyVars, riskVars, scanVars>>

\* stopAutoYield -> stopAutoOptimizer(): the flag and the timer, nothing else
StopAutoYield ==
    /\ agentRunning
    /\ agentRunning' = FALSE
    /\ timers' = IF agentInterval # 0 THEN timers \ {agentInterval} ELSE timers
    /\ agentInterval' = 0
    /\ UNCHANGED <<riskLevel, priceHistory, treasuryDecisions, treasuryState,
                   decisionIdCounter, currentPositions, now, cycles, nextCycle,
                   cmd, cmdCount, riskChanges, budget, vaultFailures>>
    /\ UNCHANGED <<queueVars, cacheVars, cmdVars, strategyVars, riskVars, scanVars>>

\* LOOP_INTERVAL passes: every live timer calls runOptimizationCycle(context)
Tick ==
    /\ nextCycle + Cardinality(timers) <= budget.cycles + 1
    /\ NumInFlight + Cardinality(timers) <= budget.overlap
    /\ now < (budget.cycles - 1) * LOOP_INTERVAL
    /\ now' = now + LOOP_INTERVAL
    /\ cycles' = SpawnCycles(Cardinality(timers))
    /\ nextCycle' = nextCycle + Cardinality(timers)
    /\ UNCHANGED <<agentRunning, agentInterval, timers, riskLevel, priceHistory,
                   treasuryDecisions, treasuryState, decisionIdCounter,
                   currentPositions, cmd, cmdCount, riskChanges, budget, vaultFailures>>
    /\ UNCHANGED <<queueVars, cacheVars, cmdVars, strategyVars, riskVars, scanVars>>

\* lines 1119-1172: getSuiPrice() resolves with p; price history, triggers, and
\* the next awaited call
CyclePrice(c, p) ==
    /\ cycles[c].pc = "price"
    /\ LET ph       == PushPrice(priceHistory, p)
           cy       == cycles[c]
           moveAmt  == Half(treasuryState.suiYieldTotal)
       IN /\ priceHistory' = ph
          /\ cycles' = [cycles EXCEPT ![c] =
                IF SafetyTrigger(ph, p) /\ moveAmt > 1
                THEN [cy EXCEPT !.pc = "deposit", !.amt = moveAmt,
                                !.score = SafetyScore(ph, p)]
                ELSE IF RecoveryTrigger(ph, p) /\ treasuryState.arcVaultBalance > 1
                THEN [CallFindBest(cy, "yieldCheck") EXCEPT !.score = RedeployScore(ph, p)]
                ELSE CallFindBest(cy, "findBest")]
    /\ UNCHANGED <<agentRunning, agentInterval, timers, riskLevel, treasuryDecisions,
                   treasuryState, decisionIdCounter, currentPositions, now, nextCycle,
                   cmd, cmdCount, riskChanges, budget, vaultFailures>>
    /\ UNCHANGED <<queueVars, cacheVars, cmdVars, strategyVars, riskVars, scanVars>>

\* lines 1147-1162: depositToVault(moveAmount, reason) resolves
CycleDeposit(c, success) ==
    /\ cycles[c].pc = "deposit"
    /\ LET cy == cycles[c]
           d  == NewDecision("auto_safety", "price_drop", cy.score, cy.amt, "arc")
       IN IF success
          THEN /\ treasuryDecisions' = PushDecision(treasuryDecisions, d)
               /\ treasuryState' = RecordInto(
                     [treasuryState EXCEPT
                        !.arcVaultBalance = treasuryState.arcVaultBalance + cy.amt,
                        !.suiYieldTotal = treasuryState.suiYieldTotal - cy.amt], d)
               /\ decisionIdCounter' = decisionIdCounter + 1
               /\ cycles' = [cycles EXCEPT ![c] =
                     Done([cy EXCEPT !.recorded = cy.recorded + 1])]
               /\ UNCHANGED vaultFailures
          ELSE /\ cycles' = [cycles EXCEPT ![c] = Done([cy EXCEPT !.failed = TRUE])]
               /\ vaultFailures' = vaultFailures + 1
               /\ UNCHANGED <<treasuryDecisions, treasuryState, decisionIdCounter>>
    /\ UNCHANGED <<agentRunning, agentInterval, timers, riskLevel, priceHistory,
                   currentPositions, now, nextCycle, cmd, cmdCount, riskChanges, budget>>
    /\ UNCHANGED <<queueVars, cacheVars, cmdVars, strategyVars, riskVars, scanVars>>

\* lines 1172-1179: the recovery branch's findBestYield resolves with a scan
CycleYieldCheck(c, scan) ==
    /\ cycles[c].pc = "yieldCheck"
    /\ LET cy      == cycles[c]
           bestApy == BestOpportunity(scan, cy.argRisk).netApy
       IN cycles' = [cycles EXCEPT ![c] =
             IF bestApy > MIN_YIELD_FOR_DEPLOYMENT
             THEN [cy EXCEPT !.pc = "withdraw",
                             !.amt = Half(treasuryState.arcVaultBalance)]
             ELSE CallFindBest(cy, "findBest")]
    /\ UNCHANGED <<agentRunning, agentInterval, timers, riskLevel, priceHistory,
                   treasuryDecisions, treasuryState, decisionIdCounter, currentPositions,
                   now, nextCycle, cmd, cmdCount, riskChanges, budget, vaultFailures>>
    /\ UNCHANGED <<queueVars, cacheVars, cmdVars, strategyVars, riskVars, scanVars>>

CycleScanThrowsStops(c) ==
    /\ cycles[c].pc \in {"yieldCheck", "findBest"}
    /\ cycles' = [cycles EXCEPT ![c] = Done([cycles[c] EXCEPT !.failed = TRUE])]
    /\ agentRunning' = FALSE
    /\ timers' = {}
    /\ agentInterval' = 0
    /\ UNCHANGED <<riskLevel, priceHistory,
                   treasuryDecisions, treasuryState, decisionIdCounter, currentPositions,
                   now, nextCycle, cmd, cmdCount, riskChanges, budget, vaultFailures>>
    /\ UNCHANGED <<queueVars, cacheVars, cmdVars, strategyVars, riskVars, scanVars>>

\* an awaited findBestYield rejects (scanYields threw): the catch at 1295 logs
\* the error and the cycle ends
CycleScanThrows(c) ==
    /\ cycles[c].pc \in {"yieldCheck", "findBest"}
    /\ cycles' = [cycles EXCEPT ![c] = Done([cycles[c] EXCEPT !.failed = TRUE])]
    /\ UNCHANGED <<agentRunning, agentInterval, timers, riskLevel, priceHistory,
                   treasuryDecisions, treasuryState, decisionIdCounter, currentPositions,
                   now, nextCycle, cmd, cmdCount, riskChanges, budget, vaultFailures>>
    /\ UNCHANGED <<queueVars, cacheVars, cmdVars, strategyVars, riskVars, scanVars>>

\* lines 1179-1199: withdrawFromVault(redeployAmount, reason) resolves; the
\* cycle then goes on to the standard rebalancing check
CycleWithdraw(c, success) ==
    /\ cycles[c].pc = "withdraw"
    /\ LET cy == cycles[c]
           d  == NewDecision("auto_redeploy", "recovery", cy.score, cy.amt, "cross-chain")
       IN IF success
          THEN /\ treasuryDecisions' = PushDecision(treasuryDecisions, d)
               /\ treasuryState' = RecordInto(
                     [treasuryState EXCEPT
                        !.arcVaultBalance = treasuryState.arcVaultBalance - cy.amt,
                        !.suiYieldTotal = treasuryState.suiYieldTotal + cy.amt], d)
               /\ decisionIdCounter' = decisionIdCounter + 1
               /\ cycles' = [cycles EXCEPT ![c] =
                     CallFindBest([cy EXCEPT !.recorded = cy.recorded + 1], "findBest")]
               /\ UNCHANGED vaultFailures
          ELSE /\ cycles' = [cycles EXCEPT ![c] =
                     CallFindBest([cy EXCEPT !.failed = TRUE], "findBest")]
               /\ vaultFailures' = vaultFailures + 1
               /\ UNCHANGED <<treasuryDecisions, treasuryState, decisionIdCounter>>
    /\ UNCHANGED <<agentRunning, agentInterval, timers, riskLevel, priceHistory,
                   currentPositions, now, nextCycle, cmd, cmdCount, riskChanges, budget>>
    /\ UNCHANGED <<queueVars, cacheVars, cmdVars, strategyVars, riskVars, scanVars>>

\* lines 1199-1256: the standard check's findBestYield resolves with a scan
CycleFindBest(c, scan) ==
    /\ cycles[c].pc = "findBest"
    /\ LET cy      == cycles[c]
           best    == BestOpportunity(scan, cy.argRisk)
           profile == RISK_PROFILES[riskLevel]
           cur     == IF Len(currentPositions) > 0 THEN currentPositions[1] ELSE NoPosition
           impr    == IF cur.protocol # "none" THEN best.netApy - cur.apy ELSE best.netApy
           reads   == cy.riskDrift \/ riskLevel # cy.startRisk
           d       == NewDecision("risk_assessment", "no_yield", NO_YIELD_RISK_SCORE, 0, "arc")
           pos     == [protocol |-> best.protocol, chain |-> best.chain,
                       apy |-> best.netApy, amountUsd |-> cur.amountUsd]
           r       == NewDecision("rebalance", "improvement", treasuryState.riskScore,
                                  cur.amountUsd, "sui")
       IN IF best.protocol = "none"
          THEN IF treasuryState.suiYieldTotal > 10
                  /\ \A i \in 1..Len(Eligible(scan, cy.argRisk)) :
                         Eligible(scan, cy.argRisk)[i].netApy < MIN_YIELD_FOR_DEPLOYMENT
               THEN /\ treasuryDecisions' = PushDecision(treasuryDecisions, d)
                    /\ treasuryState' = RecordInto(treasuryState, d)
                    /\ decisionIdCounter' = decisionIdCounter + 1
                    /\ cycles' = [cycles EXCEPT ![c] =
                          Done([cy EXCEPT !.riskDrift = reads, !.recorded = cy.recorded + 1])]
                    /\ UNCHANGED currentPositions
               ELSE /\ cycles' = [cycles EXCEPT ![c] =
                          Done([cy EXCEPT !.riskDrift = reads])]
                    /\ UNCHANGED <<treasuryDecisions, treasuryState, decisionIdCounter,
                                   currentPositions>>
          ELSE IF impr > profile.rebalanceThresholdApy
               THEN IF resolveProtocolName(best.protocol) # "none"
                    THEN /\ cycles' = [cycles EXCEPT ![c] =
                               [cy EXCEPT !.pc = "ptb", !.riskDrift = reads,
                                          !.best = best, !.cur = cur,
                                          !.rebal.scan = scan]]
                         /\ UNCHANGED <<treasuryDecisions, treasuryState,
                                        decisionIdCounter, currentPositions>>
                    ELSE /\ currentPositions' = setPosition(currentPositions, pos)
                         /\ treasuryDecisions' = PushDecision(treasuryDecisions, r)
                         /\ treasuryState' = RecordInto(treasuryState, r)
                         /\ decisionIdCounter' = decisionIdCounter + 1
                         /\ cycles' = [cycles EXCEPT ![c] =
                               Done([cy EXCEPT !.riskDrift = reads,
                                               !.recorded = cy.recorded + 1,
                                               !.rebal = [done |-> TRUE, scan |-> scan,
                                                          before |-> currentPositions,
                                                          after |-> setPosition(currentPositions, pos)]])]
               ELSE /\ cycles' = [cycles EXCEPT ![c] =
                          Done([cy EXCEPT !.riskDrift = reads])]
                    /\ UNCHANGED <<treasuryDecisions, treasuryState, decisionIdCounter,
                                   currentPositions>>
    /\ UNCHANGED <<agentRunning, agentInterval, timers, riskLevel, priceHistory,
                   now, nextCycle, cmd, cmdCount, riskChanges, budget, vaultFailures>>
    /\ UNCHANGED <<queueVars, cacheVars, cmdVars, strategyVars, riskVars, scanVars>>

\* lines 1256-1288: getSuiPrice() resolves, the PTB is built, the position is
\* tracked and the rebalance is recorded
CycleRebalance(c) ==
    /\ cycles[c].pc = "ptb"
    /\ LET cy  == cycles[c]
           pos == [protocol |-> cy.best.protocol, chain |-> cy.best.chain,
                   apy |-> cy.best.netApy, amountUsd |-> cy.cur.amountUsd]
           r   == NewDecision("rebalance", "improvement", treasuryState.riskScore,
                              cy.cur.amountUsd, "sui")
       IN /\ currentPositions' = setPosition(currentPositions, pos)
          /\ treasuryDecisions' = PushDecision(treasuryDecisions, r)
          /\ treasuryState' = RecordInto(treasuryState, r)
          /\ decisionIdCounter' = decisionIdCounter + 1
          /\ cycles' = [cycles EXCEPT ![c] =
                Done([cy EXCEPT !.recorded = cy.recorded + 1,
                                !.rebal = [done |-> TRUE, scan |-> cy.rebal.scan,
                                           before |-> currentPositions,
                                           after |-> setPosition(currentPositions, pos)]])]
    /\ UNCHANGED <<agentRunning, agentInterval, timers, riskLevel, priceHistory,
                   now, nextCycle, cmd, cmdCount, riskChanges, budget, vaultFailures>>
    /\ UNCHANGED <<queueVars, cacheVars, cmdVars, strategyVars, riskVars, scanVars>>

\* ================================================ executor: manual commands
\* pc: where the call is suspended ("idle": no call in flight). The other
\* fields are the latest call's name and arguments, whether its input was
\* invalid, and what it returned; they stay after the call has returned.
IdleCmd == [pc |-> "idle", name |-> "none", amount |-> 0, protocol |-> "",
            delegated |-> FALSE, price |-> 0, target |-> NoOpp,
            invalid |-> FALSE, result |-> "none",
     oldest |-> 0, fundingSum |-> 0, fundingLen |-> 0, argRisk |-> "none",
     \* history, not program state: the sum of the signed annualized rates
     fundingSigned |-> 0]

\* the call returned at once
ReturnedCmd(name, invalid, result) ==
    [IdleCmd EXCEPT !.name = name, !.invalid = invalid, !.result = result]

\* executeFunction("setRiskLevel", {level: arg}); "" stands for a missing
\* level, which defaults to "moderate"; any other string is refused
SetRiskLevel(arg) ==
    LET level == IF arg = "" THEN "moderate" ELSE arg
    IN /\ cmd.pc = "idle"
       /\ riskChanges < budget.risk
       /\ riskChanges' = riskChanges + 1
       /\ IF level \in RiskLevels
          THEN /\ riskLevel' = level
               /\ cmd' = ReturnedCmd("setRiskLevel", arg \notin RiskLevels, "ok")
          ELSE /\ riskLevel' = riskLevel
               /\ cmd' = ReturnedCmd("setRiskLevel", TRUE, "refused")
    /\ UNCHANGED <<agentRunning, agentInterval, timers, priceHistory, treasuryDecisions,
                   treasuryState, decisionIdCounter, currentPositions, now, cycles,
                   nextCycle, cmdCount, budget, vaultFailures>>
    /\ UNCHANGED <<queueVars, cacheVars, cmdVars, strategyVars, riskVars, scanVars>>

\* executeFunction("moveToArcVault" | "withdrawFromArcVault", {amount}) up to
\* the await of the vault call; amount <= 0 returns at once
VaultCommand(name, amount) ==
    /\ cmd.pc = "idle"
    /\ cmdCount < budget.manual
    /\ cmdCount' = cmdCount + 1
    /\ cmd' = IF amount <= 0
              THEN ReturnedCmd(name, TRUE, "specify_amount")
              ELSE [IdleCmd EXCEPT !.pc = name, !.name = name, !.amount = amount]
    /\ UNCHANGED <<agentRunning, agentInterval, timers, riskLevel, priceHistory,
                   treasuryDecisions, treasuryState, decisionIdCounter, currentPositions,
                   now, cycles, nextCycle, riskChanges, budget, vaultFailures>>
    /\ UNCHANGED <<queueVars, cacheVars, cmdVars, strategyVars, riskVars, scanVars>>

\* treasuryState with the allocation percentages recomputed (lines 888-894, 944-950)
WithAllocation(state) ==
    LET pct == AllocPct(state.arcVaultBalance, state.arcVaultBalance + state.suiYieldTotal)
    IN [state EXCEPT !.allocationArcPct = pct, !.allocationSuiPct = 10000 - pct]

\* lines 884-920: depositToVault(amount, reason) resolves
MoveToArcVaultSettles(success) ==
    /\ cmd.pc = "moveToArcVault"
    /\ cmd' = IdleCmd
    /\ LET st == WithAllocation([treasuryState EXCEPT
                    !.arcVaultBalance = treasuryState.arcVaultBalance + cmd.amount])
           d  == NewDecision("safety_deposit", "manual", st.riskScore, cmd.amount, "arc")
       IN IF success
          THEN /\ treasuryDecisions' = PushDecision(treasuryDecisions, d)
               /\ treasuryState' = RecordInto(st, d)
               /\ decisionIdCounter' = decisionIdCounter + 1
               /\ UNCHANGED vaultFailures
          ELSE /\ vaultFailures' = vaultFailures + 1
               /\ UNCHANGED <<treasuryDecisions, treasuryState, decisionIdCounter>>
    /\ UNCHANGED <<agentRunning, agentInterval, timers, riskLevel, priceHistory,
                   currentPositions, now, cycles, nextCycle, cmdCount, riskChanges, budget>>
    /\ UNCHANGED <<queueVars, cacheVars, cmdVars, strategyVars, riskVars, scanVars>>

\* lines 937-975: withdrawFromVault(amount, reason) resolves
WithdrawFromArcVaultSettles(success) ==
    /\ cmd.pc = "withdrawFromArcVault"
    /\ cmd' = IdleCmd
    /\ LET st == WithAllocation([treasuryState EXCEPT
                    !.arcVaultBalance = Max2(0, treasuryState.arcVaultBalance - cmd.amount)])
           d  == NewDecision("yield_withdraw", "manual", st.riskScore, cmd.amount, "arc")
       IN IF success
          THEN /\ treasuryDecisions' = PushDecision(treasuryDecisions, d)
               /\ treasuryState' = RecordInto(st, d)
               /\ decisionIdCounter' = decisionIdCounter + 1
               /\ UNCHANGED vaultFailures
          ELSE /\ vaultFailures' = vaultFailures + 1
               /\ UNCHANGED <<treasuryDecisions, treasuryState, decisionIdCounter>>
    /\ UNCHANGED <<agentRunning, agentInterval, timers, riskLevel, priceHistory,
                   currentPositions, now, cycles, nextCycle, cmdCount, riskChanges, budget>>
    /\ UNCHANGED <<queueVars, cacheVars, cmdVars, strategyVars, riskVars, scanVars>>

\* ----------------------------------------------------------------------
\* executeFunction("depositToVault" | "moveToYield", args)
\* ----------------------------------------------------------------------
MOVE_DEFAULT_AMOUNT == 100

\* protocol arguments a moveToYield call may carry; "" stands for a missing one
ProtocolInputs == {"", "NAVI", "navi protocol", "Navi Protocol ", "Aave V3", "unknown-venue-x"}

\* buildProtocolDeposit(protocolName, ...).isSimulated on mainnet: only the
\* Bluefin branch is simulated
IsSimulated(protocolName) == protocolName = "Bluefin"

\* yields.find(...) of moveToYield: the first opportunity whose display name is
\* the input (case-insensitively) or the resolved name; NoOpp when none
FindTarget(yields, protocolInput) ==
    LET protocolName == resolveProtocolName(protocolInput)
        hit(y) == \/ toLowerCase(y.protocol) = toLowerCase(protocolInput)
                  \/ (protocolName # "none" /\ y.protocol = protocolName)
    IN IF \E i \in 1..Len(yields) : hit(yields[i])
       THEN yields[CHOOSE i \in 1..Len(yields) :
                      hit(yields[i]) /\ \A j \in 1..(i-1) : ~hit(yields[j])]
       ELSE NoOpp

\* the YieldPosition moveToYield records; amountUsd = amount * suiPrice, in cents
MovePosition(target, amount, price) ==
    [protocol |-> target.protocol, chain |-> target.chain,
     apy |-> target.netApy, amountUsd |-> amount * price]

\* lines 162-172: depositToVault up to the await of delegatorExecute
DepositToVault(amount, delegated) ==
    /\ cmd.pc = "idle"
    /\ cmdCount < budget.manual
    /\ cmdCount' = cmdCount + 1
    /\ IF amount <= 0
       THEN /\ cmd' = ReturnedCmd("depositToVault", TRUE, "specify_amount")
            /\ UNCHANGED txCount
       ELSE IF ~delegated
       THEN /\ cmd' = ReturnedCmd("depositToVault", FALSE, "fund_first")
            /\ UNCHANGED txCount
       ELSE /\ cmd' = [IdleCmd EXCEPT !.pc = "depositToVault", !.name = "depositToVault",
                                      !.amount = amount, !.delegated = TRUE]
            /\ txCount' = [built |-> txCount.built + 1, submitted |-> txCount.submitted + 1]
    /\ UNCHANGED <<agentRunning, agentInterval, timers, riskLevel, priceHistory,
                   treasuryDecisions, treasuryState, decisionIdCounter, currentPositions,
                   now, cycles, nextCycle, riskChanges, budget, vaultFailures>>
    /\ UNCHANGED <<queueVars, cacheVars, strategyVars, riskVars, scanVars>>

\* lines 172-184: delegatorExecute(tx) settles; the deposit is only logged
DepositToVaultSettles(ok) ==
    /\ cmd.pc = "depositToVault"
    /\ cmd' = ReturnedCmd("depositToVault", FALSE, IF ok THEN "ok" ELSE "failed")
    /\ UNCHANGED <<agentRunning, agentInterval, timers, riskLevel, priceHistory,
                   treasuryDecisions, treasuryState, decisionIdCounter, currentPositions,
                   now, cycles, nextCycle, cmdCount, riskChanges, budget, vaultFailures>>
    /\ UNCHANGED <<queueVars, cacheVars, cmdVars, strategyVars, riskVars, scanVars>>

\* lines 220-225: moveToYield up to the await of getSuiPrice(); the amount is
\* not looked at here
MoveToYield(protocolInput, amount, delegated) ==
    /\ cmd.pc = "idle"
    /\ cmdCount < budget.manual
    /\ cmdCount' = cmdCount + 1
    /\ cmd' = IF protocolInput = ""
              THEN ReturnedCmd("moveToYield", TRUE, "specify_protocol")
              ELSE [IdleCmd EXCEPT !.pc = "movePrice", !.name = "moveToYield",
                                   !.protocol = protocolInput, !.amount = amount,
                                   !.delegated = delegated, !.invalid = amount <= 0]
    /\ UNCHANGED <<agentRunning, agentInterval, timers, riskLevel, priceHistory,
                   treasuryDecisions, treasuryState, decisionIdCounter, currentPositions,
                   now, cycles, nextCycle, riskChanges, budget, vaultFailures>>
    /\ UNCHANGED <<queueVars, cacheVars, cmdVars, strategyVars, riskVars, scanVars>>

\* lines 225-228: getSuiPrice() resolves, scanYields() is awaited
MoveToYieldPrice(p) ==
    /\ cmd.pc = "movePrice"
    /\ cmd' = [cmd EXCEPT !.pc = "moveScan", !.price = p]
    /\ UNCHANGED <<agentRunning, agentInterval, timers, riskLevel, priceHistory,
                   treasuryDecisions, treasuryState, decisionIdCounter, currentPositions,
                   now, cycles, nextCycle, cmdCount, riskChanges, budget, vaultFailures>>
    /\ UNCHANGED <<queueVars, cacheVars, cmdVars, strategyVars, riskVars, scanVars>>

\* lines 228-347: scanYields() resolves with yields
MoveToYieldScan(yields) ==
    /\ cmd.pc = "moveScan"
    /\ LET protocolName == resolveProtocolName(cmd.protocol)
           target       == FindTarget(yields, cmd.protocol)
           amount       == IF cmd.amount = 0 THEN MOVE_DEFAULT_AMOUNT ELSE cmd.amount
           position     == MovePosition(target, amount, cmd.price)
           done(result) == [cmd EXCEPT !.pc = "idle", !.result = result]
       IN IF target = NoOpp
          THEN /\ cmd' = done("not_found")
               /\ UNCHANGED <<currentPositions, txCount>>
          ELSE IF protocolName # "none" /\ target.isNative
          THEN IF cmd.delegated /\ ~IsSimulated(protocolName)
               THEN /\ cmd' = [cmd EXCEPT !.pc = "moveExec", !.target = target]
                    /\ txCount' = [built |-> txCount.built + 1,
                                   submitted |-> txCount.submitted + 1]
                    /\ UNCHANGED currentPositions
               ELSE /\ cmd' = done("ok")
                    /\ txCount' = [txCount EXCEPT !.built = txCount.built + 1]
                    /\ currentPositions' = setPosition(currentPositions, position)
          ELSE IF protocolName # "none"
          THEN /\ cmd' = done("ok")
               /\ txCount' = [txCount EXCEPT !.built = txCount.built + 1]
               /\ currentPositions' = setPosition(currentPositions, position)
          ELSE /\ cmd' = done("ok")
               /\ currentPositions' = setPosition(currentPositions, position)
               /\ UNCHANGED txCount
    /\ UNCHANGED <<agentRunning, agentInterval, timers, riskLevel, priceHistory,
                   treasuryDecisions, treasuryState, decisionIdCounter,
                   now, cycles, nextCycle, cmdCount, riskChanges, budget, vaultFailures>>
    /\ UNCHANGED <<queueVars, cacheVars, strategyVars, riskVars, scanVars>>

\* scanYields() rejects: the catch at 352 returns "Move failed"
MoveToYieldScanThrows ==
    /\ cmd.pc = "moveScan"
    /\ cmd' = [cmd EXCEPT !.pc = "idle", !.result = "move_failed"]
    /\ UNCHANGED <<agentRunning, agentInterval, timers, riskLevel, priceHistory,
                   treasuryDecisions, treasuryState, decisionIdCounter, currentPositions,
                   now, cycles, nextCycle, cmdCount, riskChanges, budget, vaultFailures>>
    /\ UNCHANGED <<queueVars, cacheVars, cmdVars, strategyVars, riskVars, scanVars>>

\* lines 259-281: delegatorExecute(action.tx) settles
MoveToYieldSettles(ok) ==
    /\ cmd.pc = "moveExec"
    /\ LET amount == IF cmd.amount = 0 THEN MOVE_DEFAULT_AMOUNT ELSE cmd.amount
       IN IF ok
          THEN /\ currentPositions' = setPosition(currentPositions,
                                         MovePosition(cmd.target, amount, cmd.price))
               /\ cmd' = [cmd EXCEPT !.pc = "idle", !.result = "ok", !.target = NoOpp]
          ELSE /\ cmd' = [cmd EXCEPT !.pc = "idle", !.result = "tx_failed", !.target = NoOpp]
               /\ UNCHANGED currentPositions
    /\ UNCHANGED <<agentRunning, agentInterval, timers, riskLevel, priceHistory,
                   treasuryDecisions, treasuryState, decisionIdCounter,
                   now, cycles, nextCycle, cmdCount, riskChanges, budget, vaultFailures>>
    /\ UNCHANGED <<queueVars, cacheVars, cmdVars, strategyVars, riskVars, scanVars>>

\* getTreasuryState(): a copy of the stored object
getTreasuryState == treasuryState

\* module state of part_009 after load
ExecInit ==
    /\ agentRunning = FALSE
    /\ agentInterval = 0
    /\ timers = {}
    /\ riskLevel = "moderate"
    /\ priceHistory = <<>>
    /\ treasuryDecisions = <<>>
    /\ treasuryState = [arcVaultBalance |-> 0, suiYieldTotal |-> 0,
                        lastDecision |-> NoDecision, lastDecisionTime |-> 0,
                        riskScore |-> 0, allocationArcPct |-> 0,
                        allocationSuiPct |-> 10000]
    /\ decisionIdCounter = 0
    /\ currentPositions = <<>>
    /\ now = 0
    /\ cycles = [c \in CycleIds |-> IdleCycle]
    /\ nextCycle = 1
    /\ cmd = IdleCmd
    /\ cmdCount = 0
    /\ riskChanges = 0
    /\ vaultFailures = 0

SchedInit ==
    /\ ExecInit
    /\ budget \in Budgets

SchedNext ==
    \/ StartAutoYield
    \/ StartAutoYieldAgain
    \/ StopAutoYield
    \/ Tick
    \/ \E c \in CycleIds, p \in Prices : CyclePrice(c, p)
    \/ \E c \in CycleIds, ok \in BOOLEAN : CycleDeposit(c, ok)
    \/ \E c \in CycleIds, scan \in Scans : CycleYieldCheck(c, scan)
    \/ \E c \in CycleIds : CycleScanThrows(c)
    \/ \E c \in CycleIds, ok \in BOOLEAN : CycleWithdraw(c, ok)
    \/ \E c \in CycleIds, scan \in Scans : CycleFindBest(c, scan)
    \/ \E c \in CycleIds : CycleRebalance(c)
    \/ \E level \in RiskLevels : SetRiskLevel(level)
    \/ \E name \in {"moveToArcVault", "withdrawFromArcVault"}, a \in Amounts :
           VaultCommand(name, a)
    \/ \E ok \in BOOLEAN : MoveToArcVaultSettles(ok)
    \/ \E ok \in BOOLEAN : WithdrawFromArcVaultSettles(ok)

\* ------------------------------------------------------------------------
\* Cached signal getters. A getter call is one action: its single await is
\* the request to the external source, whose outcome (ok, and the payload) is
\* the environment's choice.
\* ------------------------------------------------------------------------
PRICE_CACHE_TTL   == 30000
CACHE_TTL         == 60000
NAVI_CACHE_TTL    == 120000
MARKET_CACHE_TTL  == 15000
FUNDING_CACHE_TTL == 60000

BLUEFIN_MARKETS == {"SUI-PERP", "ETH-PERP", "BTC-PERP"}

\* the clock stops once the longest TTL has certainly expired
CacheHorizon == NAVI_CACHE_TTL + MARKET_CACHE_TTL

\* CoinGecko response bodies; 0 stands for a missing field (data.sui?.usd ?? 0)
PriceBodies == { [sui |-> 100, ethereum |-> 2000, bitcoin |-> 60000],
                 [sui |-> 0,   ethereum |-> 2000, bitcoin |-> 60000] }

\* DeFi Llama response bodies (json.data || [])
PoolBodies == { <<>>,
                << [project |-> "navi-lending", chain |-> "Sui", apy |-> 50] >>,
                << [project |-> "navi-lending", chain |-> "Sui", apy |-> 60] >> }

\* NAVI response bodies: rates as fractions, in thousandths
NaviBodies == { <<>>,
                << [symbol |-> "SUI", supply_rate |-> 5, borrow_rate |-> 8, supply |-> 5000] >>,
                << [symbol |-> "SUI", supply_rate |-> 6, borrow_rate |-> 8, supply |-> 5000] >> }

\* Bluefin /marketData response bodies: funding rates in millionths
MarketBodies == { << [symbol |-> "DOGE-PERP", lastFundingRate |-> 3] >>,
                  << [symbol |-> "SUI-PERP", lastFundingRate |-> -1] >>,
                  << [symbol |-> "SUI-PERP", lastFundingRate |-> 2],
                     [symbol |-> "DOGE-PERP", lastFundingRate |-> 3] >> }

\* the condition every getter opens with
Fresh(cached, lastFetch, ttl) == Len(cached) > 0 /\ now - lastFetch < ttl

\* the three PriceData entries fetchPrices builds
PriceList(data, source) ==
    << [asset |-> "SUI", price |-> data.sui, timestamp |-> now, source |-> source],
       [asset |-> "ETH", price |-> data.ethereum, timestamp |-> now, source |-> source],
       [asset |-> "BTC", price |-> data.bitcoin, timestamp |-> now, source |-> source] >>

\* fetchPrices' zeroed answer
UnavailablePrices ==
    PriceList([sui |-> 0, ethereum |-> 0, bitcoin |-> 0], "unavailable")

\* fetchNaviPoolData's conversion of the response: rates * 100
NaviPools(body) ==
    [k \in 1..Len(body) |->
        [asset |-> body[k].symbol,
         supplyApy |-> body[k].supply_rate * 100,
         borrowApy |-> body[k].borrow_rate * 100,
         tvlUsd |-> body[k].supply]]

\* fetchMarketData's conversion of the response: the listed markets only
Markets(body) ==
    LET listed == SelectSeq(body, LAMBDA m : m.symbol \in BLUEFIN_MARKETS)
    IN [k \in 1..Len(listed) |->
           [symbol |-> listed[k].symbol, fundingRate |-> listed[k].lastFundingRate]]

\* fetchFundingRates' conversion of the markets
FundingRates(markets) ==
    [k \in 1..Len(markets) |->
        [symbol |-> markets[k].symbol,
         fundingRate |-> markets[k].fundingRate,
         annualizedRate |-> Abs(markets[k].fundingRate) * 3 * 365 * 100,
         timestamp |-> now]]

NoCall == [getter |-> "none", threw |-> FALSE, asked |-> FALSE, failed |-> FALSE,
           stale |-> <<>>, value |-> <<>>]

\* the call returned value; asked: the source was requested, failed: it failed;
\* stale: the getter's cache as the call found it
Returned(getter, asked, failed, stale, value) ==
    [getter |-> getter, threw |-> FALSE, asked |-> asked, failed |-> failed,
     stale |-> stale, value |-> value]

\* the call rejected (threw)
Threw(getter, stale) ==
    [getter |-> getter, threw |-> TRUE, asked |-> TRUE, failed |-> TRUE,
     stale |-> stale, value |-> <<>>]

\* fetchPrices()
FetchPrices(ok, data) ==
    /\ fetches < MaxFetches
    /\ fetches' = fetches + 1
    /\ IF Fresh(cachedPrices, lastPriceFetch, PRICE_CACHE_TTL)
       THEN /\ lastCall' = Returned("fetchPrices", FALSE, FALSE, cachedPrices, cachedPrices)
            /\ UNCHANGED <<cachedPrices, lastPriceFetch>>
       ELSE IF ok
       THEN /\ cachedPrices' = PriceList(data, "coingecko")
            /\ lastPriceFetch' = now
            /\ lastCall' = Returned("fetchPrices", TRUE, FALSE, cachedPrices, cachedPrices')
       ELSE /\ lastCall' = Returned("fetchPrices", TRUE, TRUE, cachedPrices,
                                    IF Len(cachedPrices) > 0 THEN cachedPrices
                                    ELSE UnavailablePrices)
            /\ UNCHANGED <<cachedPrices, lastPriceFetch>>
    /\ UNCHANGED <<cachedPools, lastFetchTime, cachedNaviData, lastNaviFetch,
                   cachedMarketData, lastMarketFetch, cachedFundingRates, lastFundingFetch>>
    /\ UNCHANGED priceCalls
    /\ UNCHANGED <<queueVars, schedVars, cmdVars, strategyVars, riskVars, scanVars>>

\* fetchDefiLlamaPools(): no try/catch, a failed request rejects the call
FetchDefiLlamaPools(ok, body) ==
    /\ fetches < MaxFetches
    /\ fetches' = fetches + 1
    /\ IF Fresh(cachedPools, lastFetchTime, CACHE_TTL)
       THEN /\ lastCall' = Returned("fetchDefiLlamaPools", FALSE, FALSE, cachedPools, cachedPools)
            /\ UNCHANGED <<cachedPools, lastFetchTime>>
       ELSE IF ok
       THEN /\ cachedPools' = body
            /\ lastFetchTime' = now
            /\ lastCall' = Returned("fetchDefiLlamaPools", TRUE, FALSE, cachedPools, body)
       ELSE /\ lastCall' = Threw("fetchDefiLlamaPools", cachedPools)
            /\ UNCHANGED <<cachedPools, lastFetchTime>>
    /\ UNCHANGED <<cachedPrices, lastPriceFetch, cachedNaviData, lastNaviFetch,
                   cachedMarketData, lastMarketFetch, cachedFundingRates, lastFundingFetch>>
    /\ UNCHANGED priceCalls
    /\ UNCHANGED <<queueVars, schedVars, cmdVars, strategyVars, riskVars, scanVars>>

\* fetchNaviPoolData()
FetchNaviPoolData(ok, body) ==
    /\ fetches < MaxFetches
    /\ fetches' = fetches + 1
    /\ IF Fresh(cachedNaviData, lastNaviFetch, NAVI_CACHE_TTL)
       THEN /\ lastCall' = Returned("fetchNaviPoolData", FALSE, FALSE, cachedNaviData, cachedNaviData)
            /\ UNCHANGED <<cachedNaviData, lastNaviFetch>>
       ELSE IF ok
       THEN /\ cachedNaviData' = NaviPools(body)
            /\ lastNaviFetch' = now
            /\ lastCall' = Returned("fetchNaviPoolData", TRUE, FALSE, cachedNaviData, cachedNaviData')
       ELSE /\ lastCall' = Returned("fetchNaviPoolData", TRUE, TRUE, cachedNaviData, cachedNaviData)
            /\ UNCHANGED <<cachedNaviData, lastNaviFetch>>
    /\ UNCHANGED <<cachedPrices, lastPriceFetch, cachedPools, lastFetchTime,
                   cachedMarketData, lastMarketFetch, cachedFundingRates, lastFundingFetch>>
    /\ UNCHANGED priceCalls
    /\ UNCHANGED <<queueVars, schedVars, cmdVars, strategyVars, riskVars, scanVars>>

\* what fetchMarketData() leaves in its cache and returns, as
\* <<cachedMarketData', lastMarketFetch', asked, failed, value>>
MarketFetch(ok, body) ==
    IF Fresh(cachedMarketData, lastMarketFetch, MARKET_CACHE_TTL)
    THEN <<cachedMarketData, lastMarketFetch, FALSE, FALSE, cachedMarketData>>
    ELSE IF ok
    THEN <<Markets(body), now, TRUE, FALSE, Markets(body)>>
    ELSE <<cachedMarketData, lastMarketFetch, TRUE, TRUE, cachedMarketData>>

\* fetchMarketData()
FetchMarketData(ok, body) ==
    LET r == MarketFetch(ok, body)
    IN /\ fetches < MaxFetches
       /\ fetches' = fetches + 1
       /\ cachedMarketData' = r[1]
       /\ lastMarketFetch' = r[2]
       /\ lastCall' = Returned("fetchMarketData", r[3], r[4], cachedMarketData, r[5])
       /\ UNCHANGED <<cachedPrices, lastPriceFetch, cachedPools, lastFetchTime,
                      cachedNaviData, lastNaviFetch, cachedFundingRates, lastFundingFetch>>
       /\ UNCHANGED priceCalls
       /\ UNCHANGED <<queueVars, schedVars, cmdVars, strategyVars, riskVars, scanVars>>

\* fetchFundingRates(): its source is fetchMarketData(), which never rejects,
\* so the catch branch is never taken
FetchFundingRates(ok, body) ==
    /\ fetches < MaxFetches
    /\ fetches' = fetches + 1
    /\ IF Fresh(cachedFundingRates, lastFundingFetch, FUNDING_CACHE_TTL)
       THEN /\ lastCall' = Returned("fetchFundingRates", FALSE, FALSE,
                                    cachedFundingRates, cachedFundingRates)
            /\ UNCHANGED <<cachedFundingRates, lastFundingFetch,
                           cachedMarketData, lastMarketFetch>>
       ELSE LET r == MarketFetch(ok, body)
                rates == FundingRates(r[5])
            IN /\ cachedMarketData' = r[1]
               /\ lastMarketFetch' = r[2]
               /\ cachedFundingRates' = rates
               /\ lastFundingFetch' = now
               /\ lastCall' = Returned("fetchFundingRates", r[3], r[4],
                                       cachedFundingRates, rates)
    /\ UNCHANGED <<cachedPrices, lastPriceFetch, cachedPools, lastFetchTime,
                   cachedNaviData, lastNaviFetch>>
    /\ UNCHANGED priceCalls
    /\ UNCHANGED <<queueVars, schedVars, cmdVars, strategyVars, riskVars, scanVars>>

\* ------------------------------------------------------------------------
\* fetchPrices with its await: other calls and the clock run while the request
\* to CoinGecko is outstanding. Each call keeps the "now" it read on entry.
\* ------------------------------------------------------------------------
PriceCallIds == 1..MaxPriceCalls

IdlePriceCall == [pc |-> "idle", now |-> 0, asked |-> FALSE, value |-> <<>>]

\* the three PriceData entries, stamped with the call's own now
PriceListAt(data, source, t) ==
    << [asset |-> "SUI", price |-> data.sui, timestamp |-> t, source |-> source],
       [asset |-> "ETH", price |-> data.ethereum, timestamp |-> t, source |-> source],
       [asset |-> "BTC", price |-> data.bitcoin, timestamp |-> t, source |-> source] >>

\* lines 135-142: fetchPrices() up to its await, or its return on a hit
GetPrices(k) ==
    /\ priceCalls.call[k].pc = "idle"
    /\ priceCalls' = [priceCalls EXCEPT !.call[k] =
          IF Fresh(cachedPrices, lastPriceFetch, PRICE_CACHE_TTL)
          THEN [pc |-> "returned", now |-> now, asked |-> FALSE, value |-> cachedPrices]
          ELSE [pc |-> "fetch", now |-> now, asked |-> TRUE, value |-> <<>>]]
    /\ UNCHANGED <<cachedPrices, lastPriceFetch, cachedPools, lastFetchTime,
                   cachedNaviData, lastNaviFetch, cachedMarketData, lastMarketFetch,
                   cachedFundingRates, lastFundingFetch, fetches, lastCall>>
    /\ UNCHANGED <<queueVars, schedVars, cmdVars, strategyVars, riskVars, scanVars>>

\* lines 142-183: the request settles; lastPriceFetch takes the call's now
GetPricesSettles(k, ok, data) ==
    /\ priceCalls.call[k].pc = "fetch"
    /\ LET t == priceCalls.call[k].now
       IN IF ok
          THEN /\ cachedPrices' = PriceListAt(data, "coingecko", t)
               /\ lastPriceFetch' = t
               /\ priceCalls' = [priceCalls EXCEPT
                     !.call[k].pc = "returned",
                     !.call[k].value = PriceListAt(data, "coingecko", t),
                     !.newest = Max2(priceCalls.newest, t)]
          ELSE /\ priceCalls' = [priceCalls EXCEPT
                     !.call[k].pc = "returned",
                     !.call[k].value =
                         IF Len(cachedPrices) > 0 THEN cachedPrices
                         ELSE PriceListAt([sui |-> 0, ethereum |-> 0, bitcoin |-> 0],
                                          "unavailable", t)]
               /\ UNCHANGED <<cachedPrices, lastPriceFetch>>
    /\ UNCHANGED <<cachedPools, lastFetchTime, cachedNaviData, lastNaviFetch,
                   cachedMarketData, lastMarketFetch, cachedFundingRates,
                   lastFundingFetch, fetches, lastCall>>
    /\ UNCHANGED <<queueVars, schedVars, cmdVars, strategyVars, riskVars, scanVars>>

\* time passes between two getter calls
ClockAdvances ==
    /\ now < CacheHorizon
    /\ now' = now + MARKET_CACHE_TTL
    /\ UNCHANGED <<queueVars, execVars, cacheVars, cmdVars, strategyVars, riskVars, scanVars>>

CacheInit ==
    /\ cachedPrices = <<>>
    /\ lastPriceFetch = 0
    /\ cachedPools = <<>>
    /\ lastFetchTime = 0
    /\ cachedNaviData = <<>>
    /\ lastNaviFetch = 0
    /\ cachedMarketData = <<>>
    /\ lastMarketFetch = 0
    /\ cachedFundingRates = <<>>
    /\ lastFundingFetch = 0
    /\ fetches = 0
    /\ lastCall = NoCall
    /\ priceCalls = [call |-> [k \in PriceCallIds |-> IdlePriceCall], newest |-> -1]

CacheNext ==
    \/ \E ok \in BOOLEAN, data \in PriceBodies : FetchPrices(ok, data)
    \/ \E ok \in BOOLEAN, body \in PoolBodies : FetchDefiLlamaPools(ok, body)
    \/ \E ok \in BOOLEAN, body \in NaviBodies : FetchNaviPoolData(ok, body)
    \/ \E ok \in BOOLEAN, body \in MarketBodies : FetchMarketData(ok, body)
    \/ \E ok \in BOOLEAN, body \in MarketBodies : FetchFundingRates(ok, body)
    \/ ClockAdvances

\* fetchPrices calls overlapping each other and the clock
PriceRaceNext ==
    \/ \E k \in PriceCallIds : GetPrices(k)
    \/ \E k \in PriceCallIds, ok \in BOOLEAN, data \in PriceBodies :
           GetPricesSettles(k, ok, data)
    \/ ClockAdvances

QueueInit ==
    /\ queue = <<>>
    /\ nextIntentId = 1
    /\ drains = [d \in DrainIds |-> IdleDrain]
    /\ calls = <<>>

QueueNext ==
    \/ Enqueue
    \/ \E d \in DrainIds : HandleOnline(d)
    \/ \E d \in DrainIds, ok \in BOOLEAN : ExecutorSettles(d, ok)

\* the queue over the life of the stored data: drains are triggered again and
\* again, and the process may restart at any moment
QueueLiveNext ==
    \/ QueueNext
    \/ \E d \in DrainIds : DrainReturns(d)
    \/ Restart

\* ----------------------------------------------------------------------
\* Strategy engine: evaluateStrategy (part_005). Prices are in cents, APYs in
\* tenths of a percent, SUI amounts in units of 10^8 MIST (0.1 SUI), USD
\* amounts of a bridge in cents.
\* ----------------------------------------------------------------------
PRICE_FLOOR               == 50
YIELD_REBALANCE_THRESHOLD == 20
TARGET_SUI_PCT            == 50
REBALANCE_THRESHOLD       == 5
MIN_REBALANCE_AMOUNT      == 1

\* the prices argument: PriceData lists with or without a SUI entry
StrategyPrices ==
    { <<>> } \cup
    { << [asset |-> "ETH", price |-> 2000], [asset |-> "SUI", price |-> p] >> :
          p \in {0, 40, 49, 50, 100} }

\* the portfolio argument
Portfolios ==
    { [suiBalance |-> 7,  suiPct |-> 50, suiValueUsd |-> 70,  totalValueUsd |-> 140],
      [suiBalance |-> 64, suiPct |-> 80, suiValueUsd |-> 640, totalValueUsd |-> 800],
      [suiBalance |-> 0,  suiPct |-> 0,  suiValueUsd |-> 0,   totalValueUsd |-> 100] }

\* the previousDecisions argument
PreviousDecisions ==
    { <<>>,
      << [action |-> "NO_ACTION", timestamp |-> 0] >>,
      << [action |-> "YIELD_REBALANCE", timestamp |-> 0],
         [action |-> "NO_ACTION", timestamp |-> LOOP_INTERVAL] >> }

\* the yieldOpportunities argument; <<>> also stands for undefined
StrategyYields == Scans \cup { << Opp("Scallop", "Sui", 15, TRUE, 5000) >> }

NoAgentDecision == [id |-> 0, timestamp |-> 0, action |-> "none", amountIn |-> 0,
                    chain |-> "none", status |-> "none"]

NoStrategyCall == [portfolio |-> [suiBalance |-> 0, suiPct |-> 0, suiValueUsd |-> 0,
                                  totalValueUsd |-> 0],
                   prices |-> <<>>, previousDecisions |-> <<>>,
                   yieldOpportunities |-> <<>>, decision |-> NoAgentDecision]

\* makeDecision(action, reason, amountIn, chain)
makeDecision(action, amountIn, chain) ==
    [id |-> decisionCounter + 1, timestamp |-> now, action |-> action,
     amountIn |-> amountIn, chain |-> chain, status |-> "pending"]

\* prices.find(p => p.asset === "SUI"): its price, -1 when there is no entry
SuiPriceOf(prices) ==
    IF \E i \in 1..Len(prices) : prices[i].asset = "SUI"
    THEN prices[CHOOSE i \in 1..Len(prices) :
                    prices[i].asset = "SUI" /\ \A j \in 1..(i-1) : prices[j].asset # "SUI"].price
    ELSE -1

\* lines 42-51: the crash-safety test
CrashSafetyDue(prices) ==
    SuiPriceOf(prices) # -1 /\ SuiPriceOf(prices) < PRICE_FLOOR

\* lines 54-66: the yield-rebalance test, with its hysteresis
YieldRebalanceDue(previousDecisions, yieldOpportunities) ==
    LET rebalances == SelectSeq(previousDecisions, LAMBDA d : d.action = "YIELD_REBALANCE")
    IN /\ Len(yieldOpportunities) > 0
       /\ yieldOpportunities[1].netApy > YIELD_REBALANCE_THRESHOLD
       /\ \/ Len(rebalances) = 0
          \/ now - Last(rebalances).timestamp > LOOP_INTERVAL * HYSTERESIS_INTERVALS

\* lines 45-50
SafetyMove(portfolio) ==
    makeDecision("SAFETY_MOVE", portfolio.suiBalance \div 2, "sui->arc")

\* lines 67-72
YieldRebalance(yieldOpportunities) ==
    makeDecision("YIELD_REBALANCE", 0,
                 IF yieldOpportunities[1].isNative THEN "sui" ELSE "sui->evm")

\* lines 77-118: the drift check and the NO_ACTION default
DriftDecision(portfolio, prices) ==
    LET currentSuiPct == portfolio.suiPct
        drift         == Abs(currentSuiPct - TARGET_SUI_PCT)
        suiPriceUsd   == IF SuiPriceOf(prices) > 0 THEN SuiPriceOf(prices) ELSE 100
        excessPct     == currentSuiPct - TARGET_SUI_PCT
        amountSui     == (portfolio.suiValueUsd * excessPct * 10) \div suiPriceUsd
        deficitPct    == TARGET_SUI_PCT - currentSuiPct
        noAction      == makeDecision("NO_ACTION", 0, "monitor")
    IN IF drift > REBALANCE_THRESHOLD
       THEN IF currentSuiPct > TARGET_SUI_PCT
            THEN IF amountSui > MIN_REBALANCE_AMOUNT
                 THEN makeDecision("CROSS_CHAIN_BRIDGE", amountSui, "sui->arc")
                 ELSE noAction
            ELSE makeDecision("CROSS_CHAIN_BRIDGE", portfolio.totalValueUsd * deficitPct,
                              "arc->sui")
       ELSE noAction

evaluateStrategyYieldFirst(portfolio, prices, previousDecisions, yieldOpportunities) ==
    IF YieldRebalanceDue(previousDecisions, yieldOpportunities)
    THEN YieldRebalance(yieldOpportunities)
    ELSE IF CrashSafetyDue(prices)
    THEN SafetyMove(portfolio)
    ELSE DriftDecision(portfolio, prices)

\* evaluateStrategy(portfolio, prices, previousDecisions, yieldOpportunities)
evaluateStrategy(portfolio, prices, previousDecisions, yieldOpportunities) ==
    IF CrashSafetyDue(prices)
    THEN SafetyMove(portfolio)
    ELSE IF YieldRebalanceDue(previousDecisions, yieldOpportunities)
    THEN YieldRebalance(yieldOpportunities)
    ELSE DriftDecision(portfolio, prices)

\* a call of evaluateStrategy
EvaluateStrategy(portfolio, prices, previousDecisions, yieldOpportunities) ==
    /\ decisionCounter < MaxEvaluations
    /\ decisionCounter' = decisionCounter + 1
    /\ strategy' = [portfolio |-> portfolio, prices |-> prices,
                    previousDecisions |-> previousDecisions,
                    yieldOpportunities |-> yieldOpportunities,
                    decision |-> evaluateStrategy(portfolio, prices, previousDecisions,
                                                  yieldOpportunities)]
    /\ UNCHANGED <<queueVars, schedVars, cacheVars, cmdVars, riskVars, scanVars>>

\* time passes between two calls
StrategyClock ==
    /\ now < LOOP_INTERVAL * (HYSTERESIS_INTERVALS + 1)
    /\ now' = now + LOOP_INTERVAL
    /\ UNCHANGED <<queueVars, execVars, cacheVars, cmdVars, strategyVars, riskVars, scanVars>>

StrategyInit ==
    /\ decisionCounter = 0
    /\ strategy = NoStrategyCall

StrategyNext ==
    \/ \E portfolio \in Portfolios, prices \in StrategyPrices,
          previous \in PreviousDecisions, yields \in StrategyYields :
           EvaluateStrategy(portfolio, prices, previous, yields)
    \/ StrategyClock

\* ----------------------------------------------------------------------
\* executeFunction("assessTreasuryRisk") (part_009 757-874). The score is
\* computed in exact rationals <<numerator, denominator>>, denominator > 0.
\* ----------------------------------------------------------------------
HIGH_RISK_THRESHOLD   == 65
MEDIUM_RISK_THRESHOLD == 35

RECURSIVE Gcd(_, _)
Gcd(a, b) == IF b = 0 THEN a ELSE Gcd(b, a % b)

Rat(n, d) ==
    LET g == Gcd(Abs(n), d) IN IF n = 0 THEN <<0, 1>> ELSE <<n \div g, d \div g>>

RatAdd(x, y) == Rat(x[1] * y[2] + y[1] * x[2], x[2] * y[2])
RatSub(x, y) == Rat(x[1] * y[2] - y[1] * x[2], x[2] * y[2])
RatMul(x, y) == Rat(x[1] * y[1], x[2] * y[2])
RatLeq(x, y) == x[1] * y[2] <= y[1] * x[2]
RatMin(x, y) == IF RatLeq(x, y) THEN x ELSE y
RatMax(x, y) == IF RatLeq(x, y) THEN y ELSE x
RatAbs(x)    == <<Abs(x[1]), x[2]>>
\* Math.round of a non-negative rational
RatRound(x)  == (2 * x[1] + x[2]) \div (2 * x[2])
\* Math.min(100, Math.max(0, x))
Clamp100(x)  == RatMin(<<100, 1>>, RatMax(<<0, 1>>, x))

\* lines 770-773: priceChange24h, in percent
PriceChange24h(oldest, suiPrice) ==
    IF oldest > 0 THEN Rat((suiPrice - oldest) * 100, oldest) ELSE <<0, 1>>

PriceRiskBothWays(priceChange24h) ==
    Clamp100(RatMul(RatAbs(priceChange24h), <<5, 1>>))

\* lines 806-809: priceRisk
PriceRisk(priceChange24h) ==
    Clamp100(RatMul(RatAbs(RatMin(<<0, 1>>, priceChange24h)), <<5, 1>>))

\* lines 779-783: the mean of annualizedRate (millionths of a percent), in percent
RECURSIVE SumRates(_), SumSignedRates(_)
SumSignedRates(rates) ==
    IF Len(rates) = 0 THEN 0
    ELSE rates[1].fundingRate * 3 * 365 * 100 + SumSignedRates(Tail(rates))

SumRates(rates) ==
    IF Len(rates) = 0 THEN 0 ELSE rates[1].annualizedRate + SumRates(Tail(rates))

AvgFundingAnnualized(fundingSum, fundingLen) ==
    IF fundingLen > 0 THEN Rat(fundingSum, fundingLen * 1000000) ELSE <<0, 1>>

\* lines 784-789: fundingSignal
FundingSignal(avg) ==
    IF ~RatLeq(<<-5, 1>>, avg) THEN "bearish"
    ELSE IF ~RatLeq(avg, <<10, 1>>) THEN "bullish" ELSE "neutral"

\* lines 810-813: fundingRisk
FundingRisk(avg) == Clamp100(RatAdd(RatMul(<<-2, 1>>, avg), <<50, 1>>))

\* line 814: yieldRisk; bestYieldApy in tenths of a percent
YieldRisk(bestYieldApy) ==
    Clamp100(RatMul(RatSub(<<5, 1>>, Rat(bestYieldApy, 10)), <<20, 1>>))

\* lines 816-818: riskScore
RiskScore(priceRisk, fundingRisk, yieldRisk) ==
    RatRound(RatAdd(RatMul(priceRisk, <<4, 10>>),
                    RatAdd(RatMul(fundingRisk, <<3, 10>>), RatMul(yieldRisk, <<3, 10>>))))

RiskBandTwoBands(riskScore) ==
    IF riskScore >= HIGH_RISK_THRESHOLD
    THEN [riskLabel |-> "HIGH", recommendedArcPct |-> 70, recommendedSuiPct |-> 30]
    ELSE [riskLabel |-> "LOW", recommendedArcPct |-> 15, recommendedSuiPct |-> 85]

\* lines 820-837: the recommended allocation
RiskBand(riskScore) ==
    IF riskScore >= HIGH_RISK_THRESHOLD
    THEN [riskLabel |-> "HIGH", recommendedArcPct |-> 70, recommendedSuiPct |-> 30]
    ELSE IF riskScore >= MEDIUM_RISK_THRESHOLD
    THEN [riskLabel |-> "MEDIUM", recommendedArcPct |-> 40, recommendedSuiPct |-> 60]
    ELSE [riskLabel |-> "LOW", recommendedArcPct |-> 15, recommendedSuiPct |-> 85]

\* what fetchPrices() resolves with
AssessPriceLists ==
    { UnavailablePrices } \cup
    { PriceList([sui |-> p, ethereum |-> 2000, bitcoin |-> 60000], "coingecko") :
          p \in {150, 180, 190, 200} }

\* what fetchFundingRates() resolves with
AssessFundingLists ==
    { FundingRates(Markets(body)) :
          body \in { <<>>,
                     << [symbol |-> "SUI-PERP", lastFundingRate |-> 0] >>,
                     << [symbol |-> "SUI-PERP", lastFundingRate |-> -50],
                        [symbol |-> "ETH-PERP", lastFundingRate |-> 100] >>,
                     << [symbol |-> "BTC-PERP", lastFundingRate |-> 300] >>,
                     << [symbol |-> "SUI-PERP", lastFundingRate |-> -100] >> } }

\* what scanYields() resolves with inside findBestYield
AssessScans ==
    { <<>>,
      << Opp("NAVI", "Sui", 30, TRUE, 5000) >>,
      << Opp("Aave V3", "Arbitrum", 97, FALSE, 9000), Opp("NAVI", "Sui", 50, TRUE, 5000) >> }

\* lines 757-759: assessTreasuryRisk up to the await of fetchPrices()
AssessTreasuryRisk ==
    /\ cmd.pc = "idle"
    /\ cmdCount < budget.manual
    /\ cmdCount' = cmdCount + 1
    /\ cmd' = [IdleCmd EXCEPT !.pc = "assessPrices", !.name = "assessTreasuryRisk"]
    /\ UNCHANGED <<agentRunning, agentInterval, timers, riskLevel, priceHistory,
                   treasuryDecisions, treasuryState, decisionIdCounter, currentPositions,
                   now, cycles, nextCycle, riskChanges, budget, vaultFailures>>
    /\ UNCHANGED <<queueVars, cacheVars, cmdVars, strategyVars, riskVars, scanVars>>

\* lines 759-778: fetchPrices() resolves; the price is pushed to the history,
\* fetchFundingRates() is awaited
AssessPrices(prices) ==
    /\ cmd.pc = "assessPrices"
    /\ LET suiPrice == IF SuiPriceOf(prices) = -1 THEN 0 ELSE SuiPriceOf(prices)
           ph       == PushPrice(priceHistory, suiPrice)
       IN /\ priceHistory' = ph
          /\ cmd' = [cmd EXCEPT !.pc = "assessFunding", !.price = suiPrice,
                                !.oldest = IF Len(ph) > 1 THEN ph[1] ELSE suiPrice]
    /\ UNCHANGED <<agentRunning, agentInterval, timers, riskLevel,
                   treasuryDecisions, treasuryState, decisionIdCounter, currentPositions,
                   now, cycles, nextCycle, cmdCount, riskChanges, budget, vaultFailures>>
    /\ UNCHANGED <<queueVars, cacheVars, cmdVars, strategyVars, riskVars, scanVars>>

\* lines 778-796: fetchFundingRates() resolves; findBestYield(riskLevel) is called
AssessFunding(rates) ==
    /\ cmd.pc = "assessFunding"
    /\ cmd' = [cmd EXCEPT !.pc = "assessYield", !.fundingSum = SumRates(rates),
                          !.fundingLen = Len(rates), !.argRisk = riskLevel,
                          !.fundingSigned = SumSignedRates(rates)]
    /\ UNCHANGED <<agentRunning, agentInterval, timers, riskLevel, priceHistory,
                   treasuryDecisions, treasuryState, decisionIdCounter, currentPositions,
                   now, cycles, nextCycle, cmdCount, riskChanges, budget, vaultFailures>>
    /\ UNCHANGED <<queueVars, cacheVars, cmdVars, strategyVars, riskVars, scanVars>>

\* lines 797-873 with bestYieldApy known: the score, the band, the write of
\* treasuryState.riskScore (851) and the recorded decision (853-859)
AssessFinish(bestYieldApy) ==
    LET priceChange24h == PriceChange24h(cmd.oldest, cmd.price)
        avg            == AvgFundingAnnualized(cmd.fundingSum, cmd.fundingLen)
        priceRisk      == PriceRisk(priceChange24h)
        fundingRisk    == FundingRisk(avg)
        yieldRisk      == YieldRisk(bestYieldApy)
        riskScore      == RiskScore(priceRisk, fundingRisk, yieldRisk)
        band           == RiskBand(riskScore)
        d              == NewDecision("risk_assessment", band.riskLabel, riskScore, 0, "arc")
    IN /\ treasuryDecisions' = PushDecision(treasuryDecisions, d)
       /\ treasuryState' = RecordInto([treasuryState EXCEPT !.riskScore = riskScore], d)
       /\ decisionIdCounter' = decisionIdCounter + 1
       /\ cmd' = [IdleCmd EXCEPT !.name = "assessTreasuryRisk", !.result = band.riskLabel]
       /\ assessments' = Append(assessments,
              [history |-> priceHistory, priceChange24h |-> priceChange24h,
               fundingSignal |-> FundingSignal(avg), bestYieldApy |-> bestYieldApy,
               priceRisk |-> priceRisk, fundingRisk |-> fundingRisk,
               yieldRisk |-> yieldRisk, riskScore |-> riskScore, band |-> band,
               fundingSigned |-> AvgFundingAnnualized(cmd.fundingSigned, cmd.fundingLen)])
       /\ UNCHANGED <<agentRunning, agentInterval, timers, riskLevel, priceHistory,
                      currentPositions, now, cycles, nextCycle, cmdCount, riskChanges,
                      budget, vaultFailures>>
       /\ UNCHANGED <<queueVars, cacheVars, cmdVars, strategyVars, scanVars>>

\* findBestYield resolves: bestOpportunity?.netApy || 0
AssessYield(scan) ==
    /\ cmd.pc = "assessYield"
    /\ AssessFinish(BestOpportunity(scan, cmd.argRisk).netApy)

\* findBestYield rejects: the inner catch at 800 leaves bestYieldApy at 0
AssessYieldThrows ==
    /\ cmd.pc = "assessYield"
    /\ AssessFinish(0)

RiskNext ==
    \/ AssessTreasuryRisk
    \/ \E prices \in AssessPriceLists : AssessPrices(prices)
    \/ \E rates \in AssessFundingLists : AssessFunding(rates)
    \/ \E scan \in AssessScans : AssessYield(scan)
    \/ AssessYieldThrows
    \/ \E name \in {"moveToArcVault", "withdrawFromArcVault"}, a \in Amounts :
           VaultCommand(name, a)
    \/ \E ok \in BOOLEAN : MoveToArcVaultSettles(ok)
    \/ \E ok \in BOOLEAN : WithdrawFromArcVaultSettles(ok)

\* ----------------------------------------------------------------------
\* yield-scanner.ts: scanYields. APYs and bridge fees in tenths of a percent,
\* TVL in thousands of USD.
\* ----------------------------------------------------------------------
LLAMA_MIN_TVL       == 100
DEFAULT_BRIDGE_FEE  == 5

\* YIELD_PROTOCOLS
YIELD_PROTOCOLS ==
    { [project |-> "scallop-lend", chain |-> "Sui",      displayName |-> "Scallop"],
      [project |-> "navi-lending", chain |-> "Sui",      displayName |-> "NAVI"],
      [project |-> "aave-v3",      chain |-> "Arbitrum", displayName |-> "Aave V3"],
      [project |-> "compound-v3",  chain |-> "Optimism", displayName |-> "Compound V3"] }

\* BRIDGE_FEES, keyed by <<FROM, TO>>
BRIDGE_FEES ==
    (<<"SUI", "ARBITRUM">> :> 3) @@ (<<"SUI", "OPTIMISM">> :> 3) @@ (<<"SUI", "ARC">> :> 1) @@
    (<<"ARBITRUM", "SUI">> :> 3) @@ (<<"OPTIMISM", "SUI">> :> 3) @@ (<<"ARC", "SUI">> :> 1)

\* String.prototype.toUpperCase, on the chain names
toUpperCase(str) ==
    CASE str = "Sui"      -> "SUI"
      [] str = "Arbitrum" -> "ARBITRUM"
      [] str = "Optimism" -> "OPTIMISM"
      [] str = "Arc"      -> "ARC"
      [] OTHER            -> str

\* getBridgeCost(fromChain, toChain)
getBridgeCost(fromChain, toChain) ==
    LET key == <<toUpperCase(fromChain), toUpperCase(toChain)>>
    IN IF key \in DOMAIN BRIDGE_FEES THEN BRIDGE_FEES[key] ELSE DEFAULT_BRIDGE_FEE

\* filterRelevantPools(pools)
filterRelevantPools(pools) ==
    SelectSeq(pools, LAMBDA pool :
        \E p \in YIELD_PROTOCOLS :
            /\ pool.project = p.project
            /\ pool.chain = p.chain
            /\ pool.apy > 0
            /\ pool.tvlUsd > LLAMA_MIN_TVL)

\* protocol?.displayName || pool.project
DisplayName(pool) ==
    IF \E p \in YIELD_PROTOCOLS : p.project = pool.project /\ p.chain = pool.chain
    THEN (CHOOSE p \in YIELD_PROTOCOLS :
              p.project = pool.project /\ p.chain = pool.chain).displayName
    ELSE pool.project

poolToOpportunityGross(pool) ==
    LET isNative   == pool.chain = "Sui"
        bridgeCost == IF isNative THEN 0 ELSE getBridgeCost("SUI", pool.chain)
    IN [protocol |-> DisplayName(pool), chain |-> pool.chain, asset |-> pool.symbol,
        apy |-> pool.apy, tvl |-> pool.tvlUsd, netApy |-> pool.apy,
        bridgeCostPct |-> bridgeCost, isNative |-> isNative]

\* poolToOpportunity(pool)
poolToOpportunity(pool) ==
    LET isNative   == pool.chain = "Sui"
        bridgeCost == IF isNative THEN 0 ELSE getBridgeCost("SUI", pool.chain)
    IN [protocol |-> DisplayName(pool), chain |-> pool.chain, asset |-> pool.symbol,
        apy |-> pool.apy, tvl |-> pool.tvlUsd, netApy |-> pool.apy - bridgeCost,
        bridgeCostPct |-> bridgeCost, isNative |-> isNative]

\* one turn of the NAVI overlay loop (lines 240-268)
OverlayNavi(opportunities, naviPool) ==
    LET hit(o) == o.protocol = "NAVI" /\ o.asset = naviPool.asset
    IN IF naviPool.supplyApy <= 0 THEN opportunities
       ELSE IF \E i \in 1..Len(opportunities) : hit(opportunities[i])
       THEN LET idx == CHOOSE i \in 1..Len(opportunities) :
                           hit(opportunities[i])
                           /\ \A j \in 1..(i-1) : ~hit(opportunities[j])
            IN [opportunities EXCEPT ![idx] =
                   [@ EXCEPT !.apy = naviPool.supplyApy, !.netApy = naviPool.supplyApy,
                             !.tvl = naviPool.tvlUsd]]
       ELSE IF naviPool.asset \in {"SUI", "USDC", "USDT"}
       THEN Append(opportunities,
                [protocol |-> "NAVI", chain |-> "Sui", asset |-> naviPool.asset,
                 apy |-> naviPool.supplyApy, tvl |-> naviPool.tvlUsd,
                 netApy |-> naviPool.supplyApy, bridgeCostPct |-> 0, isNative |-> TRUE])
       ELSE opportunities

RECURSIVE OverlayAll(_, _)
OverlayAll(opportunities, naviPools) ==
    IF Len(naviPools) = 0 THEN opportunities
    ELSE OverlayAll(OverlayNavi(opportunities, naviPools[1]), Tail(naviPools))

\* lines 271-285: one Bluefin funding-rate entry; its asset is the symbol with
\* the direction, written here as a pair
FundingOpportunity(bf) ==
    [protocol |-> "Bluefin", chain |-> "Sui", asset |-> <<bf.symbol, bf.direction>>,
     apy |-> bf.annualizedYield, tvl |-> 0, netApy |-> bf.annualizedYield,
     bridgeCostPct |-> 0, isNative |-> TRUE]

\* opportunities.sort((a, b) => b.netApy - a.netApy): stable, descending
RECURSIVE SortByNetApy(_)
SortByNetApy(ops) ==
    IF Len(ops) <= 1 THEN ops
    ELSE LET rest == SortByNetApy(Tail(ops))
             k    == Cardinality({i \in 1..Len(rest) : rest[i].netApy > ops[1].netApy})
         IN SubSeq(rest, 1, k) \o <<ops[1]>> \o SubSeq(rest, k + 1, Len(rest))

\* scanYields() given what its three sources resolved with
scanYields(llamaPools, naviPools, bluefinYields) ==
    LET relevant == filterRelevantPools(llamaPools)
        converted == [i \in 1..Len(relevant) |-> poolToOpportunity(relevant[i])]
        overlaid == OverlayAll(converted, naviPools)
        funding  == [i \in 1..Len(bluefinYields) |-> FundingOpportunity(bluefinYields[i])]
    IN SortByNetApy(overlaid \o funding)

\* what fetchDefiLlamaPools() resolves with
ScanLlamaPools ==
    { <<>>,
      << [project |-> "navi-lending", chain |-> "Sui", symbol |-> "SUI", apy |-> 50,
          tvlUsd |-> 5000] >>,
      << [project |-> "aave-v3", chain |-> "Arbitrum", symbol |-> "USDC", apy |-> 97,
          tvlUsd |-> 9000],
         [project |-> "navi-lending", chain |-> "Sui", symbol |-> "SUI", apy |-> 50,
          tvlUsd |-> 5000],
         [project |-> "compound-v3", chain |-> "Optimism", symbol |-> "USDC", apy |-> 2,
          tvlUsd |-> 700] >>,
      << [project |-> "aave-v3", chain |-> "Ethereum", symbol |-> "USDC", apy |-> 40,
          tvlUsd |-> 9000],
         [project |-> "scallop-lend", chain |-> "Sui", symbol |-> "SUI", apy |-> 30,
          tvlUsd |-> 50] >> }

\* what fetchNaviPoolData() resolves with
ScanNaviPools ==
    { <<>>,
      << [asset |-> "SUI", supplyApy |-> 62, tvlUsd |-> 5100] >>,
      << [asset |-> "USDC", supplyApy |-> 41, tvlUsd |-> 800],
         [asset |-> "SUI", supplyApy |-> 0, tvlUsd |-> 5100] >>,
      << [asset |-> "WETH", supplyApy |-> 12, tvlUsd |-> 300] >> }

\* what getFundingRateYields().catch(() => []) resolves with
ScanFundingYields ==
    { <<>>,
      << [symbol |-> "SUI-PERP", direction |-> "short", annualizedYield |-> 110] >> }

NoScan == [called |-> FALSE, rejected |-> FALSE, llamaPools |-> <<>>, naviPools |-> <<>>,
           bluefinYields |-> <<>>, result |-> <<>>]

\* a call of scanYields() whose three sources resolve
ScanYields(llamaPools, naviPools, bluefinYields) ==
    /\ scanCount < MaxScans
    /\ scanCount' = scanCount + 1
    /\ lastScan' = [called |-> TRUE, rejected |-> FALSE, llamaPools |-> llamaPools,
                    naviPools |-> naviPools, bluefinYields |-> bluefinYields,
                    result |-> scanYields(llamaPools, naviPools, bluefinYields)]
    /\ UNCHANGED <<queueVars, schedVars, cacheVars, cmdVars, strategyVars, riskVars>>

\* a call of scanYields() in which fetchDefiLlamaPools() rejects
ScanYieldsRejects ==
    /\ scanCount < MaxScans
    /\ scanCount' = scanCount + 1
    /\ lastScan' = [NoScan EXCEPT !.called = TRUE, !.rejected = TRUE]
    /\ UNCHANGED <<queueVars, schedVars, cacheVars, cmdVars, strategyVars, riskVars>>

ScanInit ==
    /\ lastScan = NoScan
    /\ scanCount = 0

ScanNext ==
    \/ \E llamaPools \in ScanLlamaPools, naviPools \in ScanNaviPools,
          bluefinYields \in ScanFundingYields :
           ScanYields(llamaPools, naviPools, bluefinYields)
    \/ ScanYieldsRejects

\* ----------------------------------------------------------------------
\* executeFunction("getTreasuryStatus") (part_009 983-1052)
\* ----------------------------------------------------------------------
\* balances getVaultHealth() may report, in USD
VaultBalances == {0, 64}

\* positions.reduce((sum, p) => sum + p.amountUsd, 0); amountUsd is kept in
\* cents, the total in USD
RECURSIVE SumAmountUsd(_)
SumAmountUsd(positions) ==
    IF Len(positions) = 0 THEN 0
    ELSE positions[1].amountUsd \div 100 + SumAmountUsd(Tail(positions))

\* lines 983-988: getTreasuryStatus up to the await of getVaultHealth(); the
\* local vaultBalance is read here
GetTreasuryStatus ==
    /\ cmd.pc = "idle"
    /\ cmdCount < budget.manual
    /\ cmdCount' = cmdCount + 1
    /\ cmd' = [IdleCmd EXCEPT !.pc = "statusHealth", !.name = "getTreasuryStatus",
                              !.amount = treasuryState.arcVaultBalance]
    /\ UNCHANGED <<agentRunning, agentInterval, timers, riskLevel, priceHistory,
                   treasuryDecisions, treasuryState, decisionIdCounter, currentPositions,
                   now, cycles, nextCycle, riskChanges, budget, vaultFailures>>
    /\ UNCHANGED <<queueVars, cacheVars, cmdVars, strategyVars, riskVars, scanVars>>

\* lines 988-1046: getVaultHealth() settles (ok: with balance); the balances
\* and the allocation are overwritten
GetTreasuryStatusSettles(ok, balance) ==
    /\ cmd.pc = "statusHealth"
    /\ LET vaultBalance  == IF ok THEN balance ELSE cmd.amount
           suiYieldTotal == SumAmountUsd(currentPositions)
           arcPct        == AllocPct(vaultBalance, vaultBalance + suiYieldTotal)
       IN treasuryState' =
              [treasuryState EXCEPT
                  !.arcVaultBalance = IF ok THEN balance ELSE @,
                  !.suiYieldTotal = suiYieldTotal,
                  !.allocationArcPct = arcPct,
                  !.allocationSuiPct = 10000 - arcPct]
    /\ cmd' = [IdleCmd EXCEPT !.name = "getTreasuryStatus", !.result = "ok"]
    /\ UNCHANGED <<agentRunning, agentInterval, timers, riskLevel, priceHistory,
                   treasuryDecisions, decisionIdCounter, currentPositions,
                   now, cycles, nextCycle, cmdCount, riskChanges, budget, vaultFailures>>
    /\ UNCHANGED <<queueVars, cacheVars, cmdVars, strategyVars, riskVars, scanVars>>

\* the optimizer loop beside the manual treasury commands
BalanceNext ==
    \/ StartAutoYield
    \/ StopAutoYield
    \/ Tick
    \/ \E c \in CycleIds, p \in Prices : CyclePrice(c, p)
    \/ \E c \in CycleIds, ok \in BOOLEAN : CycleDeposit(c, ok)
    \/ \E c \in CycleIds, scan \in Scans : CycleYieldCheck(c, scan)
    \/ \E c \in CycleIds : CycleScanThrows(c)
    \/ \E c \in CycleIds, ok \in BOOLEAN : CycleWithdraw(c, ok)
    \/ \E c \in CycleIds, scan \in Scans : CycleFindBest(c, scan)
    \/ \E c \in CycleIds : CycleRebalance(c)
    \/ \E name \in {"moveToArcVault", "withdrawFromArcVault"}, a \in Amounts :
           VaultCommand(name, a)
    \/ \E ok \in BOOLEAN : MoveToArcVaultSettles(ok)
    \/ \E ok \in BOOLEAN : WithdrawFromArcVaultSettles(ok)
    \/ GetTreasuryStatus
    \/ \E ok \in BOOLEAN, balance \in VaultBalances : GetTreasuryStatusSettles(ok, balance)
    \* a position worth 64 USD for getTreasuryStatus to count
    \/ MoveToYield("NAVI", 64, FALSE)
    \/ MoveToYieldPrice(100)
    \/ \E yields \in Scans : MoveToYieldScan(yields)
    \/ MoveToYieldScanThrows

CmdInit == txCount = [built |-> 0, submitted |-> 0]

RiskInit == assessments = <<>>

\* manual commands, one at a time, the optimizer not running
CmdNext ==
    \/ \E arg \in RiskLevels \cup {"", "extreme"} : SetRiskLevel(arg)
    \/ \E name \in {"moveToArcVault", "withdrawFromArcVault"}, a \in Amounts :
           VaultCommand(name, a)
    \/ \E ok \in BOOLEAN : MoveToArcVaultSettles(ok)
    \/ \E ok \in BOOLEAN : WithdrawFromArcVaultSettles(ok)
    \/ \E a \in Amounts, delegated \in BOOLEAN : DepositToVault(a, delegated)
    \/ \E ok \in BOOLEAN : DepositToVaultSettles(ok)
    \/ \E input \in ProtocolInputs, a \in Amounts, delegated \in BOOLEAN :
           MoveToYield(input, a, delegated)
    \/ \E p \in Prices : MoveToYieldPrice(p)
    \/ \E yields \in Scans : MoveToYieldScan(yields)
    \/ MoveToYieldScanThrows
    \/ \E ok \in BOOLEAN : MoveToYieldSettles(ok)

Init == QueueInit /\ SchedInit /\ CacheInit /\ CmdInit /\ StrategyInit /\ RiskInit /\ ScanInit

\* the offline queue alone
SpecQueue == Init /\ [][QueueNext]_vars

\* the offline queue with restarts. Fairness: online events keep coming, so a
\* drain that can start does start; an awaited executor call settles; a
\* finished processQueue returns. Nothing forces an enqueue or a restart.
SpecQueueLive ==
    /\ Init /\ [][QueueLiveNext]_vars
    /\ WF_vars(\E d \in DrainIds : HandleOnline(d))
    /\ WF_vars(\E d \in DrainIds, ok \in BOOLEAN : ExecutorSettles(d, ok))
    /\ WF_vars(\E d \in DrainIds : DrainReturns(d))

\* overlapping calls of one cached getter
SpecPriceRace == Init /\ [][PriceRaceNext]_vars

\* the executor: optimizer loop and manual commands
SpecSched == Init /\ [][SchedNext]_vars

\* the cached signal getters
SpecCache == Init /\ [][CacheNext]_vars

\* the manual commands of executeFunction
SpecCmd == Init /\ [][CmdNext]_vars

\* the decision ledger under a long run of moveToArcVault commands
LedgerInit ==
    /\ QueueInit /\ ExecInit /\ CacheInit /\ CmdInit /\ StrategyInit /\ RiskInit /\ ScanInit
    /\ budget = [cycles |-> 0, overlap |-> 0, manual |-> LedgerManual, risk |-> 0]

LedgerNext ==
    \/ \E a \in Amounts : VaultCommand("moveToArcVault", a)
    \/ \E ok \in BOOLEAN : MoveToArcVaultSettles(ok)

SpecLedger == LedgerInit /\ [][LedgerNext]_vars

\* risk assessments and manual vault commands
AssessInit ==
    /\ QueueInit /\ ExecInit /\ CacheInit /\ CmdInit /\ StrategyInit /\ RiskInit /\ ScanInit
    /\ budget = [cycles |-> 0, overlap |-> 0, manual |-> RiskManual, risk |-> 0]

SpecRisk == AssessInit /\ [][RiskNext]_vars

\* the optimizer loop interleaved with the manual treasury commands
BalanceInit ==
    /\ QueueInit /\ ExecInit /\ CacheInit /\ CmdInit /\ StrategyInit /\ RiskInit /\ ScanInit
    /\ budget = [cycles |-> BalanceCycles, overlap |-> 1, manual |-> BalanceManual,
                 risk |-> 0]

SpecBalance == BalanceInit /\ [][BalanceNext]_vars

\* ------------------------------------------------------------------------
\* yield-scanner.ts: syncPositions. An owned object is modelled by what its
\* type string contains.
\* ------------------------------------------------------------------------
OwnedObjectLists ==
    { <<>>,
      << "navi" >>,
      << "navi", "lending" >>,
      << "obligation::ObligationKey", "coin", "navi" >> }

\* queryOnChainPositions(walletAddress): one position per detected object
RECURSIVE queryOnChainPositions(_)
queryOnChainPositions(objects) ==
    IF Len(objects) = 0 THEN <<>>
    ELSE LET type   == objects[1]
             found  == IF type = "obligation::ObligationKey"
                       THEN << [protocol |-> "Scallop", chain |-> "Sui",
                                apy |-> 0, amountUsd |-> 0] >>
                       ELSE IF type \in {"navi", "lending"}
                       THEN << [protocol |-> "NAVI", chain |-> "Sui",
                                apy |-> 0, amountUsd |-> 0] >>
                       ELSE <<>>
         IN found \o queryOnChainPositions(Tail(objects))

\* the merge loop of syncPositions: an on-chain position is pushed only when
\* no tracked position has its protocol and chain
RECURSIVE MergeOnChain(_, _)
MergeOnChain(positions, onChain) ==
    IF Len(onChain) = 0 THEN positions
    ELSE LET pos    == onChain[1]
             exists == \E i \in 1..Len(positions) :
                           positions[i].protocol = pos.protocol
                           /\ positions[i].chain = pos.chain
         IN MergeOnChain(IF exists THEN positions ELSE Append(positions, pos),
                         Tail(onChain))

\* syncPositions(walletAddress): the query resolves and the merge runs
SyncPositions(objects) ==
    /\ currentPositions' = MergeOnChain(currentPositions, queryOnChainPositions(objects))
    /\ UNCHANGED <<agentRunning, agentInterval, timers, riskLevel, priceHistory,
                   treasuryDecisions, treasuryState, decisionIdCounter,
                   now, cycles, nextCycle, cmd, cmdCount, riskChanges, budget, vaultFailures>>
    /\ UNCHANGED <<queueVars, cacheVars, cmdVars, strategyVars, riskVars, scanVars>>

\* every writer of the tracked positions: rebalancing cycles, manual moves
\* and on-chain syncs
PositionNext ==
    \/ StartAutoYield
    \/ Tick
    \/ \E c \in CycleIds : CyclePrice(c, 100)
    \/ \E c \in CycleIds : CycleScanThrows(c)
    \/ \E c \in CycleIds, scan \in Scans : CycleFindBest(c, scan)
    \/ \E c \in CycleIds : CycleRebalance(c)
    \/ \E input \in {"NAVI", "navi protocol", "Aave V3"}, delegated \in BOOLEAN :
           MoveToYield(input, 64, delegated)
    \/ MoveToYieldPrice(100)
    \/ \E yields \in Scans : MoveToYieldScan(yields)
    \/ MoveToYieldScanThrows
    \/ \E ok \in BOOLEAN : MoveToYieldSettles(ok)
    \/ \E objects \in OwnedObjectLists : SyncPositions(objects)

PositionInit ==
    /\ QueueInit /\ ExecInit /\ CacheInit /\ CmdInit /\ StrategyInit /\ RiskInit /\ ScanInit
    /\ budget = [cycles |-> PositionCycles, overlap |-> 1, manual |-> PositionManual,
                 risk |-> 0]

SpecPositions == PositionInit /\ [][PositionNext]_vars

\* the price source gives no SUI value: fetchPrices answers with price 0
\* (data.sui?.usd ?? 0, or the "unavailable" list)
SentinelPrices == {0, 100}

SentinelStrategyPrices ==
    { << [asset |-> "ETH", price |-> 2000], [asset |-> "SUI", price |-> p] >> :
          p \in SentinelPrices }

\* the optimizer loop and the policy engine reading prices that may be 0
SentinelNext ==
    \/ StartAutoYield
    \/ Tick
    \/ \E c \in CycleIds, p \in SentinelPrices : CyclePrice(c, p)
    \/ \E c \in CycleIds, ok \in BOOLEAN : CycleDeposit(c, ok)
    \/ \E c \in CycleIds : CycleScanThrows(c)
    \/ \E c \in CycleIds, scan \in Scans : CycleFindBest(c, scan)
    \/ \E c \in CycleIds : CycleRebalance(c)
    \/ GetTreasuryStatus
    \/ \E ok \in BOOLEAN : GetTreasuryStatusSettles(ok, 0)
    \/ MoveToYield("NAVI", 64, FALSE)
    \/ MoveToYieldPrice(100)
    \/ \E yields \in Scans : MoveToYieldScan(yields)
    \/ MoveToYieldScanThrows
    \/ \E portfolio \in Portfolios, prices \in SentinelStrategyPrices :
           EvaluateStrategy(portfolio, prices, <<>>, <<>>)

SentinelInit ==
    /\ QueueInit /\ ExecInit /\ CacheInit /\ CmdInit /\ StrategyInit /\ RiskInit /\ ScanInit
    /\ budget = [cycles |-> SentinelCycles, overlap |-> 1, manual |-> SentinelManual,
                 risk |-> 0]

SpecSentinel == SentinelInit /\ [][SentinelNext]_vars

\* the yield scanner
SpecScan == Init /\ [][ScanNext]_vars

\* the strategy engine
SpecStrategy == Init /\ [][StrategyNext]_vars

\* ================================================================== claims

\* C1: at most one runOptimizationCycle is in progress at any time (a timer
\* tick that finds a cycle still suspended on an await starts no cycle).
C1_AtMostOneCycleInFlight == NumInFlight <= 1

\* C2: a single optimization cycle appends at most one TreasuryDecision to the
\* ledger, whichever branches it takes.
C2_AtMostOneDecisionPerCycle == \A c \in CycleIds : cycles[c].recorded <= 1

\* C3: hysteresis - when cycles run one after the other (none overlapping),
\* two yield-based rebalances they record are never less than 5 scheduler
\* intervals apart.
C3_RebalanceHysteresis ==
    budget.overlap = 1 =>
    \A i, j \in 1..Len(treasuryDecisions) :
        (/\ i < j
         /\ treasuryDecisions[i].type = "rebalance"
         /\ treasuryDecisions[j].type = "rebalance")
        => treasuryDecisions[j].timestamp - treasuryDecisions[i].timestamp
               >= HYSTERESIS_INTERVALS * LOOP_INTERVAL

\* C4: a drain that is triggered while another drain is still in progress is a
\* no-op: it passes no intent to the executor and changes no intent's status.
C4_OverlappingDrainIsNoOp ==
    [][\A d \in DrainIds :
          (/\ drains[d].pc = "idle"
           /\ drains'[d].pc # "idle"
           /\ \E e \in DrainIds \ {d} : drains[e].pc = "exec")
          => (calls' = calls /\ queue' = queue)]_vars

StatusRank(status) ==
    CASE status = "queued"     -> 0
      [] status = "processing" -> 1
      [] status = "completed"  -> 2
      [] status = "failed"     -> 2

\* C5: an intent's status only moves forward along
\* queued -> processing -> completed|failed, never back.
C5_StatusNeverRegresses ==
    [][\A i \in 1..Len(queue) :
          StatusRank(queue'[i].status) >= StatusRank(queue[i].status)]_vars

\* the intents drain d has passed to the executor, in call order
CallsOf(d) ==
    LET mine == SelectSeq(calls, LAMBDA x : x[1] = d)
    IN [k \in 1..Len(mine) |-> mine[k][2]]

\* C6: a drain passes its pending intents to the executor strictly in enqueue
\* order, reports the results in that same order, and a failed intent does not
\* stop it: when the drain returns it has a result for every pending intent.
C6_DrainInEnqueueOrder ==
    \A d \in DrainIds :
        LET dr == drains[d]
        IN /\ \A k \in 1..(Len(dr.pending) - 1) :
                  FindIndex(queue, dr.pending[k]) < FindIndex(queue, dr.pending[k + 1])
           /\ CallsOf(d) = SubSeq(dr.pending, 1, dr.idx)
           /\ [k \in 1..Len(dr.results) |-> dr.results[k].id]
                  = SubSeq(dr.pending, 1, Len(dr.results))
           /\ dr.pc = "exec" => Len(dr.results) = dr.idx - 1
           /\ dr.pc = "done" => Len(dr.results) = Len(dr.pending)

\* C6 witness: scenario D - A, B, C enqueued, one drain, B fails: the results
\* are [A ok, B failed, C ok] and the stored statuses agree.
C6_Witness ==
    \E d \in DrainIds :
        /\ drains[d].pc = "done"
        /\ drains[d].results = << [id |-> 1, success |-> TRUE],
                                  [id |-> 2, success |-> FALSE],
                                  [id |-> 3, success |-> TRUE] >>
        /\ queue = << [id |-> 1, status |-> "completed"],
                      [id |-> 2, status |-> "failed"],
                      [id |-> 3, status |-> "completed"] >>

\* C7: whenever a vault transfer fails (automatic safety deposit, automatic
\* redeploy, manual deposit or withdraw), that step records a TreasuryDecision.
C7_FailedTransferIsRecorded ==
    [][vaultFailures' > vaultFailures => decisionIdCounter' > decisionIdCounter]_vars

\* C8: the TreasuryState the snapshot query returns always carries the
\* allocation percentages of the live balances.
C8_AllocationFromLiveBalances ==
    LET st == getTreasuryState
    IN /\ st.allocationArcPct =
              AllocPct(st.arcVaultBalance, st.arcVaultBalance + st.suiYieldTotal)
       /\ st.allocationSuiPct = 10000 - st.allocationArcPct

\* C9: a cycle uses, in all of its steps, the risk level that was in force when
\* it started.
C9_RiskLevelFixedPerCycle == \A c \in CycleIds : ~cycles[c].riskDrift

\* the answer the claim allows when the source fails and nothing is cached
Unavailable(getter) ==
    IF getter = "fetchPrices" THEN UnavailablePrices ELSE <<>>

\* C10: a cached getter never propagates a source failure: when the source
\* fails the call does not throw, and it returns the last cached value if there
\* is one and the 'unavailable' answer otherwise.
C10_GetterAbsorbsSourceFailure ==
    lastCall.failed =>
        /\ ~lastCall.threw
        /\ lastCall.value = IF Len(lastCall.stale) > 0 THEN lastCall.stale
                            ELSE Unavailable(lastCall.getter)

\* C11: a command whose input is invalid (a non-positive amount, a malformed or
\* missing risk level, a missing protocol) has no side effect: while it is the
\* latest command, no balance, position, risk level or ledger entry changes and
\* no transaction is built or submitted.
C11_InvalidInputHasNoEffect ==
    [][cmd'.invalid =>
          UNCHANGED <<riskLevel, treasuryState, currentPositions, treasuryDecisions,
                      txCount>>]_vars

\* C12: crash safety has the highest priority: whenever the SUI price handed to
\* evaluateStrategy is below the floor of 0.5, the decision is the safety move
\* of half of the SUI balance, whatever the yields, the previous decisions and
\* the time since the last yield rebalance.
C12_CrashSafetyFirst ==
    (/\ strategy.decision.action # "none"
     /\ SuiPriceOf(strategy.prices) # -1
     /\ SuiPriceOf(strategy.prices) < PRICE_FLOOR)
    => /\ strategy.decision.action = "SAFETY_MOVE"
       /\ strategy.decision.amountIn = strategy.portfolio.suiBalance \div 2
       /\ strategy.decision.chain = "sui->arc"

\* C12 witness: price 0.40, a cross-chain yield of 9.7 % on offer and the last
\* yield rebalance more than 5 intervals ago - the yield branch would fire, the
\* decision is the safety move of 32 of 64.
C12_Witness ==
    /\ SuiPriceOf(strategy.prices) = 40
    /\ YieldRebalanceDue(strategy.previousDecisions, strategy.yieldOpportunities)
    /\ Len(strategy.previousDecisions) = 2
    /\ strategy.decision.action = "SAFETY_MOVE"
    /\ strategy.decision.amountIn = 32

\* C13: venue names resolve through the synonym table, case-insensitively:
\* "navi protocol" (in any case, trimmed) reaches the NAVI opportunity and a
\* successful move records a NAVI position; a name the table does not know
\* ("unknown-venue-x") ends the command with the "not found" error when the
\* scan answers (with the scan's own error when it throws), and no step of it
\* builds a transaction, records a position or records a decision.
C13_VenueNamesResolveOrFail ==
    [][cmd.name = "moveToYield" /\ cmd.pc = "moveScan" =>
          /\ trim(toLowerCase(cmd.protocol)) \notin DOMAIN ProtocolSynonyms =>
                /\ resolveProtocolName(cmd.protocol) = "none"
                /\ cmd'.pc = "idle"
                /\ cmd'.result \in {"not_found", "move_failed"}
                /\ UNCHANGED <<txCount, currentPositions, treasuryDecisions>>
          /\ cmd.protocol \in {"navi protocol", "Navi Protocol "} =>
                /\ resolveProtocolName(cmd.protocol) = "NAVI"
                /\ cmd'.result = "ok" =>
                      \E i \in 1..Len(currentPositions') :
                          currentPositions'[i].protocol = "NAVI"]_vars

\* C13 witness: a move to "navi protocol" has recorded the NAVI position and a
\* later move to "unknown-venue-x" has ended as not found.
C13_Witness ==
    /\ cmd.name = "moveToYield" /\ cmd.pc = "idle"
    /\ cmd.protocol = "unknown-venue-x"
    /\ cmd.result = "not_found"
    /\ Len(currentPositions) = 1
    /\ currentPositions[1].protocol = "NAVI"
    /\ txCount.built = 1

\* C14: the scheduler is a two-state machine. Running holds exactly when one
\* timer is live (never more than one). Stopped -> Running starts exactly one
\* timer and exactly one immediate cycle; Running -> Stopped cancels the timer
\* and starts no cycle; while Stopped no cycle starts; while Running no timer
\* is added (a second start is refused) and cycles start only on a tick of the
\* one timer, one per tick.
C14_SchedulerTwoStates ==
    [][/\ agentRunning  <=> Cardinality(timers)  = 1
       /\ agentRunning' <=> Cardinality(timers') = 1
       /\ Cardinality(timers) <= 1 /\ Cardinality(timers') <= 1
       /\ (~agentRunning /\ agentRunning') =>
              /\ Cardinality(timers' \ timers) = 1
              /\ nextCycle' = nextCycle + 1
              /\ cycles'[nextCycle].pc = "price"
       /\ (agentRunning /\ ~agentRunning') =>
              /\ timers' = {}
              /\ nextCycle' = nextCycle
       /\ (~agentRunning /\ ~agentRunning') => nextCycle' = nextCycle
       /\ (agentRunning /\ agentRunning') =>
              /\ timers' = timers
              /\ nextCycle' \in {nextCycle, nextCycle + 1}
              /\ nextCycle' # nextCycle => now' = now + LOOP_INTERVAL]_vars

\* C14 witness: started, ticked, stopped and started again - two immediate
\* cycles and one tick cycle have begun, and one timer is live.
C14_Witness ==
    /\ agentRunning
    /\ Cardinality(timers) = 1
    /\ nextCycle = 4
    /\ now = LOOP_INTERVAL

\* C15: the decision ledger never holds more than 50 entries and evicts first
\* in, first out: after any number of recorded decisions it holds the most
\* recent min(n, 50) of them, oldest first, each as it was recorded.
C15_LedgerKeepsLast50 ==
    [][/\ Len(treasuryDecisions') <= 50
       /\ Len(treasuryDecisions') = Min2(decisionIdCounter', 50)
       /\ \A i \in 1..Len(treasuryDecisions') :
              treasuryDecisions'[i].id = decisionIdCounter' - Len(treasuryDecisions') + i
       /\ decisionIdCounter' # decisionIdCounter =>
              SubSeq(treasuryDecisions', 1, Len(treasuryDecisions') - 1)
                  = IF Len(treasuryDecisions) = 50 THEN Tail(treasuryDecisions)
                                                   ELSE treasuryDecisions]_vars

\* C15 witness: 52 decisions recorded; the ledger holds 50, the oldest being
\* the third.
C15_Witness ==
    /\ decisionIdCounter = 52
    /\ Len(treasuryDecisions) = 50
    /\ treasuryDecisions[1].id = 3
    /\ treasuryDecisions[50].id = 52

\* C16: a failure inside a cycle (a rejected scan, a failed vault transfer)
\* never stops the scheduler: the step in which a cycle fails leaves the
\* running flag and the timer as they were, and every tick of a running
\* scheduler starts a cycle, whatever earlier cycles did.
C16_FailureKeepsSchedulerRunning ==
    [][/\ (\E c \in CycleIds : cycles'[c].failed /\ ~cycles[c].failed) =>
              UNCHANGED <<agentRunning, agentInterval, timers>>
       /\ (agentRunning /\ now' # now) =>
              /\ agentRunning' /\ timers' = timers /\ timers # {}
              /\ nextCycle' = nextCycle + 1
              /\ cycles'[nextCycle].pc = "price"]_vars

\* C16 witness: the first cycle failed on a rejected scan, the scheduler is
\* still running with its timer, and the tick after it has started cycle 2.
C16_Witness ==
    /\ budget.overlap = 1
    /\ cycles[1].pc = "done" /\ cycles[1].failed
    /\ vaultFailures = 0
    /\ agentRunning /\ Cardinality(timers) = 1
    /\ now = LOOP_INTERVAL
    /\ nextCycle = 3
    /\ cycles[2].pc = "price"

\* C17: every assessment's score is round(0.4 * priceDropComponent + 0.3 *
\* fundingComponent + 0.3 * yieldComponent) and is classified by the stated
\* bands: >= 65 HIGH 70/30, 35..64 MEDIUM 40/60, below 35 LOW 15/85; and the
\* score is what the ledger records. Scenario A - history [2.00, 1.90, 1.80],
\* neutral funding, best yield 3 % - has price component 50 and is MEDIUM 40/60.
C17_RiskBands ==
    \A i \in 1..Len(assessments) :
        LET a == assessments[i]
            weighted == RatAdd(Rat(4 * a.priceRisk[1], 10 * a.priceRisk[2]),
                               RatAdd(Rat(3 * a.fundingRisk[1], 10 * a.fundingRisk[2]),
                                      Rat(3 * a.yieldRisk[1], 10 * a.yieldRisk[2])))
        IN /\ 2 * weighted[2] * a.riskScore <= 2 * weighted[1] + weighted[2]
           /\ 2 * weighted[1] + weighted[2] < 2 * weighted[2] * (a.riskScore + 1)
           /\ a.riskScore >= 65 =>
                  a.band = [riskLabel |-> "HIGH", recommendedArcPct |-> 70,
                            recommendedSuiPct |-> 30]
           /\ (a.riskScore >= 35 /\ a.riskScore <= 64) =>
                  a.band = [riskLabel |-> "MEDIUM", recommendedArcPct |-> 40,
                            recommendedSuiPct |-> 60]
           /\ a.riskScore < 35 =>
                  a.band = [riskLabel |-> "LOW", recommendedArcPct |-> 15,
                            recommendedSuiPct |-> 85]
           /\ \E k \in 1..Len(treasuryDecisions) :
                  /\ treasuryDecisions[k].type = "risk_assessment"
                  /\ treasuryDecisions[k].riskScore = a.riskScore
           /\ (a.history = <<200, 190, 180>> /\ a.fundingSignal = "neutral"
                  /\ a.bestYieldApy = 30) =>
                  /\ a.priceRisk = <<50, 1>>
                  /\ a.band.riskLabel = "MEDIUM"
                  /\ a.band.recommendedArcPct = 40 /\ a.band.recommendedSuiPct = 60

\* C17 witness: scenario A has been assessed as the third of three assessments
\* (score 47), after one in the LOW and one in the MEDIUM band.
C17_Witness ==
    /\ Len(assessments) = 3
    /\ assessments[3].history = <<200, 190, 180>>
    /\ assessments[3].fundingSignal = "neutral"
    /\ assessments[3].fundingRisk = <<50, 1>>
    /\ assessments[3].bestYieldApy = 30
    /\ assessments[3].riskScore = 47
    /\ assessments[1].band.riskLabel = "LOW"
    /\ assessments[2].band.riskLabel = "MEDIUM"

\* C19: over the assessments made, priceDropComponent is monotonically
\* non-decreasing in the magnitude of the price drop, is exactly 0 whenever the
\* price change is not negative, and lies in [0, 100].
C19_PriceComponentMonotone ==
    \A i \in 1..Len(assessments) :
        LET a == assessments[i]
        IN /\ RatLeq(<<0, 1>>, a.priceRisk) /\ RatLeq(a.priceRisk, <<100, 1>>)
           /\ RatLeq(<<0, 1>>, a.priceChange24h) => a.priceRisk = <<0, 1>>
           /\ \A j \in 1..Len(assessments) :
                  RatLeq(assessments[j].priceChange24h, a.priceChange24h) =>
                      RatLeq(a.priceRisk, assessments[j].priceRisk)

\* C19 witness: three assessments at 1.90, 2.00 and 1.80: no change, a rise of
\* 5.3 % (component 0) and a drop of 5.3 % (component 26.3).
C19_Witness ==
    /\ Len(assessments) = 3
    /\ assessments[3].history = <<190, 200, 180>>
    /\ assessments[2].priceChange24h = <<100, 19>> /\ assessments[2].priceRisk = <<0, 1>>
    /\ assessments[3].priceChange24h = <<-100, 19>> /\ assessments[3].priceRisk = <<500, 19>>

\* C20: treasuryState.lastDecision is the most recently recorded decision (none
\* before the first one) and treasuryState.riskScore is that decision's
\* riskScore (0 before the first one), in every state; and a step that records
\* no decision leaves both fields as they were.
C20_LedgerOwnsLastDecision ==
    [][/\ treasuryState'.lastDecision =
              IF decisionIdCounter' = 0 THEN NoDecision ELSE Last(treasuryDecisions')
       /\ treasuryState'.riskScore =
              IF decisionIdCounter' = 0 THEN 0 ELSE Last(treasuryDecisions').riskScore
       /\ decisionIdCounter' = decisionIdCounter =>
              /\ treasuryState'.lastDecision = treasuryState.lastDecision
              /\ treasuryState'.riskScore = treasuryState.riskScore]_vars

\* C20 witness: two assessments with different scores, then a vault deposit:
\* the deposit is the last decision and carries the second assessment's score.
C20_Witness ==
    /\ decisionIdCounter = 3
    /\ treasuryDecisions[1].type = "risk_assessment"
    /\ treasuryDecisions[2].type = "risk_assessment"
    /\ treasuryDecisions[1].riskScore # treasuryDecisions[2].riskScore
    /\ treasuryDecisions[3].type = "safety_deposit"
    /\ treasuryState.lastDecision = treasuryDecisions[3]
    /\ treasuryState.riskScore = treasuryDecisions[2].riskScore

\* C18: for every opportunity a scan returns, a non-native one has netApy =
\* apy - bridgeCostPct and a native one has bridgeCostPct = 0 and netApy = apy,
\* the entries overlaid by the NAVI feed and the funding-rate entries included.
C18_NetApyIsApyLessBridgeCost ==
    \A i \in 1..Len(lastScan.result) :
        LET o == lastScan.result[i]
        IN /\ ~o.isNative => o.netApy = o.apy - o.bridgeCostPct
           /\ o.isNative => (o.bridgeCostPct = 0 /\ o.netApy = o.apy)

\* C18 witness: one scan returned a Bluefin funding entry at 11.0 %, Aave V3 on
\* Arbitrum at 9.7 % gross and 9.4 % net of the 0.3 % bridge fee, the NAVI SUI
\* pool overlaid from 5.0 % to 6.2 %, and Compound V3 on Optimism at 0.2 %
\* gross, -0.1 % net.
C18_Witness ==
    /\ Len(lastScan.result) = 4
    /\ lastScan.result[1].protocol = "Bluefin" /\ lastScan.result[1].netApy = 110
    /\ lastScan.result[2].protocol = "Aave V3" /\ lastScan.result[2].apy = 97
    /\ lastScan.result[2].bridgeCostPct = 3 /\ lastScan.result[2].netApy = 94
    /\ lastScan.result[3].protocol = "NAVI" /\ lastScan.result[3].apy = 62
    /\ lastScan.llamaPools[2].apy = 50
    /\ lastScan.result[4].protocol = "Compound V3" /\ lastScan.result[4].netApy = -1

\* C21: under any interleaving of cycles with moveToArcVault,
\* withdrawFromArcVault and getTreasuryStatus, the tracked balances
\* arcVaultBalance and suiYieldTotal are never negative.
C21_BalancesNeverNegative ==
    /\ treasuryState.arcVaultBalance >= 0
    /\ treasuryState.suiYieldTotal >= 0

\* C22: over every interleaving of enqueues, online events and executor
\* settlements, each intent is passed to the executor at most once: no intent
\* id appears twice in the log of executor calls.
C22_EachIntentExecutedAtMostOnce ==
    \A i, j \in 1..Len(calls) : calls[i][2] = calls[j][2] => i = j

\* C23: no thrash on unchanged data: when a cycle has rebalanced and the next
\* cycle finds the tracked positions as that rebalance left them and scans
\* the identical yield data, the next cycle records no rebalance.
C23_NoThrashOnUnchangedData ==
    \A c \in CycleIds :
        (/\ c + 1 \in CycleIds
         /\ cycles[c].rebal.done
         /\ cycles[c + 1].rebal.before = cycles[c].rebal.after
         /\ cycles[c + 1].rebal.scan = cycles[c].rebal.scan)
        => ~cycles[c + 1].rebal.done

\* C24: a cycle whose safety trigger fired (it awaited the safety deposit) or
\* whose recovery trigger fired with the best yield above the deployment floor
\* (it awaited the redeploy withdrawal) returns after that step: it never goes
\* on to the standard yield-rebalance check.
C24_EarlyReturnAfterSafetyOrRecovery ==
    [][\A c \in CycleIds :
          (cycles[c].pc \in {"deposit", "withdraw"} /\ cycles'[c].pc # cycles[c].pc)
          => cycles'[c].pc = "done"]_vars

\* C25: in every assessment the funding component is
\* clamp(-avgAnnualizedFundingSigned * 2 + 50, 0, 100), computed from the signed
\* average annualized funding rate, so that a negative average gives a
\* component above 50.
C25_FundingComponentFromSignedAverage ==
    \A i \in 1..Len(assessments) :
        LET a == assessments[i]
        IN /\ a.fundingRisk = Clamp100(RatAdd(RatMul(<<-2, 1>>, a.fundingSigned), <<50, 1>>))
           /\ ~RatLeq(<<0, 1>>, a.fundingSigned) => ~RatLeq(a.fundingRisk, <<50, 1>>)

\* C26: the price 0 that stands for "no value from the price source" is never
\* treated as a crash: a cycle that reads price 0 does not go on to the safety
\* deposit, and evaluateStrategy called with SUI price 0 does not decide the
\* safety move.
C26_SentinelNeverACrash ==
    [][/\ \A c \in CycleIds :
              (cycles[c].pc = "price" /\ cycles'[c].pc = "deposit")
              => Last(priceHistory') # 0
       /\ (strategy' # strategy /\ SuiPriceOf(strategy'.prices) = 0)
              => strategy'.decision.action # "SAFETY_MOVE"]_vars

\* one step of cycle c, whatever the environment answers
CycleStep(c) ==
    \/ \E p \in Prices : CyclePrice(c, p)
    \/ \E ok \in BOOLEAN : CycleDeposit(c, ok)
    \/ \E scan \in Scans : CycleYieldCheck(c, scan)
    \/ \E ok \in BOOLEAN : CycleWithdraw(c, ok)
    \/ \E scan \in Scans : CycleFindBest(c, scan)
    \/ CycleRebalance(c)

\* C27: stopping the scheduler only prevents future ticks. The stop step
\* changes no cycle, no balance, no position and no decision; while stopped no
\* cycle starts; and a cycle in flight can always take its next step, stopped
\* or not, so it runs to completion with its balance updates and its record.
C27_StopOnlyPreventsFutureTicks ==
    /\ [][(agentRunning /\ ~agentRunning') =>
              UNCHANGED <<cycles, treasuryState, treasuryDecisions, decisionIdCounter,
                          currentPositions, priceHistory>>]_vars
    /\ [][(~agentRunning /\ ~agentRunning') =>
              \A c \in CycleIds : cycles[c].pc = "idle" => cycles'[c].pc = "idle"]_vars
    /\ [](\A c \in CycleIds : InFlight(c) => ENABLED CycleStep(c))

\* C27 witness: only one cycle has ever started; a whole interval has passed
\* without a second one, so the scheduler was stopped before it; and the first
\* cycle recorded its rebalance after that interval, that is, after the stop.
C27_Witness ==
    /\ ~agentRunning /\ timers = {}
    /\ nextCycle = 2
    /\ now = LOOP_INTERVAL
    /\ cycles[1].pc = "done" /\ cycles[1].recorded = 1
    /\ Len(currentPositions) = 1
    /\ Len(treasuryDecisions) = 1
    /\ treasuryDecisions[1].type = "rebalance"
    /\ treasuryDecisions[1].timestamp = LOOP_INTERVAL

\* C28: the tracked position list holds at most one position per (venue,
\* chain) pair in every reachable state, and every write keeps the existing
\* entries where they are, each with its pair: a position set for an existing
\* pair replaces that entry in place, a new pair is added at the end.
C28_OnePositionPerVenueAndChain ==
    /\ [](\A i, j \in 1..Len(currentPositions) :
             (/\ currentPositions[i].protocol = currentPositions[j].protocol
              /\ currentPositions[i].chain = currentPositions[j].chain) => i = j)
    /\ [][/\ Len(currentPositions') >= Len(currentPositions)
           /\ \A i \in 1..Len(currentPositions) :
                  /\ currentPositions'[i].protocol = currentPositions[i].protocol
                  /\ currentPositions'[i].chain = currentPositions[i].chain]_vars

\* C28 witness: a sync found a Scallop key and a NAVI receipt and tracked both
\* with amount 0; a later moveToYield of 64 SUI into NAVI replaced the NAVI
\* entry where it was.
C28_Witness ==
    /\ Len(currentPositions) = 2
    /\ currentPositions[1].protocol = "Scallop"
    /\ currentPositions[2].protocol = "NAVI"
    /\ currentPositions[2].amountUsd = 6400
    /\ currentPositions[2].apy = 50

\* C29: every enqueued intent eventually reaches completed or failed, as long
\* as drains keep being triggered - also when the process restarts while a
\* drain is in the middle of processing it.
C29_EveryIntentEventuallySettles ==
    \A id \in 1..MaxIntents :
        (\E i \in 1..Len(queue) : queue[i].id = id)
            ~> (\E i \in 1..Len(queue) :
                    queue[i].id = id /\ queue[i].status \in {"completed", "failed"})

\* C30: on a cache hit within the TTL - a value was fetched successfully less
\* than PRICE_CACHE_TTL ago - fetchPrices returns the cached value without
\* calling the external source.
C30_HitWithinTtlAsksNoSource ==
    [][\A k \in PriceCallIds :
          (/\ priceCalls.call[k].pc = "idle"
           /\ priceCalls'.call[k].pc # "idle"
           /\ priceCalls.newest >= 0
           /\ now - priceCalls.newest < PRICE_CACHE_TTL)
          => /\ ~priceCalls'.call[k].asked
             /\ priceCalls'.call[k].value = cachedPrices]_vars

====
